---- MODULE Spec2Model ----
(***************************************************************************)
(* The multi-provider LLM streaming gateway of ai-interview-booking:       *)
(* src/src/app/api/chat/route.ts (POST /chat, GET /chat, the four wire     *)
(* adapters and their stream transforms).                                  *)
(***************************************************************************)
EXTENDS Integers, Sequences, FiniteSets, TLC

(***************************************************************************)
(* Bounds of the model.                                                    *)
(***************************************************************************)
\* Frames (lines) in an upstream body of the normalizer specification.
MaxFrames == 3
\* Messages in the messages array of a request body.
MaxMsgs == 1

(***************************************************************************)
(* process.env: the four credential variables.  A variable is undefined,   *)
(* the empty string, or a non-empty string.                                *)
(***************************************************************************)
CredVars ==
    {"OPENAI_API_KEY", "ANTHROPIC_API_KEY", "OLLAMA_API_KEY", "HUGGINGFACE_API_KEY"}

undefined == "<undefined>"

EnvValues == {undefined, "", "key"}

\* JavaScript truthiness of a process.env entry (string | undefined).
EnvTruthy(v) == v # undefined /\ v # ""

Providers == {"openai", "anthropic", "ollama", "huggingface"}

null == "<null>"

\* A detectProvider that checks Hugging Face before Ollama.
detectProvider_hfFirst(e) ==
    IF EnvTruthy(e["OPENAI_API_KEY"]) THEN "openai"
    ELSE IF EnvTruthy(e["ANTHROPIC_API_KEY"]) THEN "anthropic"
    ELSE IF EnvTruthy(e["HUGGINGFACE_API_KEY"]) THEN "huggingface"
    ELSE IF EnvTruthy(e["OLLAMA_API_KEY"]) THEN "ollama"
    ELSE null

\* function detectProvider(): Provider, reading process.env = e.
detectProvider(e) ==
    IF EnvTruthy(e["OPENAI_API_KEY"]) THEN "openai"
    ELSE IF EnvTruthy(e["ANTHROPIC_API_KEY"]) THEN "anthropic"
    ELSE IF EnvTruthy(e["OLLAMA_API_KEY"]) THEN "ollama"
    ELSE IF EnvTruthy(e["HUGGINGFACE_API_KEY"]) THEN "huggingface"
    ELSE null

(***************************************************************************)
(* Bytes of an upstream body.  One symbol stands for one unit the          *)
(* transport may cut at:                                                   *)
(*   "D"      the line prefix `data: ` (a cut inside the prefix leaves two *)
(*            pieces neither of which is a data line with a JSON payload,  *)
(*            as a cut right after it does)                                *)
(*   "\n"     the line feed                                                *)
(*   "{" "}"  the opening and the closing of a JSON object                 *)
(*   "o" "c" "t" "j" "m"  the shape of the object (which fields it has)    *)
(*   "a" "b"  one-byte characters of a text field                          *)
(*   "C3" "A9" the two UTF-8 bytes of a two-byte character, written "E"    *)
(*            once decoded; "?" is U+FFFD, the replacement character       *)
(*   "!"      the payload `[DONE]`                                         *)
(*   "#"      any other byte (a comment or an event: line)                 *)
(***************************************************************************)
LF == "\n"

\* TextDecoder.decode(chunk) without {stream: true}: each chunk is decoded
\* alone, so a multi-byte character cut by the chunk boundary decodes to
\* U+FFFD on both sides.
RECURSIVE decode(_)
decode(bytes) ==
    IF bytes = <<>> THEN <<>>
    ELSE IF bytes[1] = "C3" /\ Len(bytes) >= 2 /\ bytes[2] = "A9"
         THEN <<"E">> \o decode(SubSeq(bytes, 3, Len(bytes)))
    ELSE IF bytes[1] \in {"C3", "A9"}
         THEN <<"?">> \o decode(Tail(bytes))
    ELSE <<bytes[1]>> \o decode(Tail(bytes))

\* TextEncoder.encode(content): UTF-8 bytes of a string.
RECURSIVE encode(_)
encode(str) ==
    IF str = <<>> THEN <<>>
    ELSE IF str[1] = "E" THEN <<"C3", "A9">> \o encode(Tail(str))
    ELSE IF str[1] = "?" THEN <<"EF", "BF", "BD">> \o encode(Tail(str))
    ELSE <<str[1]>> \o encode(Tail(str))

\* text.split("\n"): the pieces between line feeds (one more than the
\* number of line feeds).
RECURSIVE split(_)
split(text) ==
    IF \A i \in 1..Len(text) : text[i] # LF THEN <<text>>
    ELSE LET i == CHOOSE k \in 1..Len(text) :
                     text[k] = LF /\ \A j \in 1..(k-1) : text[j] # LF
         IN  <<SubSeq(text, 1, i - 1)>> \o split(SubSeq(text, i + 1, Len(text)))

\* .filter((line) => line.trim() !== "")
nonBlank(lines) == SelectSeq(lines, LAMBDA l : l # <<>>)

\* line.startsWith("data: ")
startsWithData(line) == line # <<>> /\ line[1] = "D"

\* line.slice(6)
slice6(line) == Tail(line)

Shapes == {"o", "c", "t", "j", "m"}

TextChars == {"a", "b", "E", "?"}

\* JSON.parse(data).  The only texts that parse are the objects
\* "{" shape text "}"; the shape says which fields the object has:
\*   o  {choices: [{delta: {content: text}}]}
\*   c  {choices: [{text: text}]}
\*   t  {type: "content_block_delta", delta: {type: "text_delta", text: text}}
\*   j  {type: "content_block_delta", delta: {type: "input_json_delta", partial_json: text}}
\*   m  {type: "message_delta", delta: {text: text}}
\* Anything else throws (ok = FALSE).
JSONparse(data) ==
    IF /\ Len(data) >= 3
       /\ data[1] = "{"
       /\ data[Len(data)] = "}"
       /\ data[2] \in Shapes
       /\ \A i \in 3..(Len(data) - 1) : data[i] \in TextChars
    THEN [ok |-> TRUE, shape |-> data[2], text |-> SubSeq(data, 3, Len(data) - 1)]
    ELSE [ok |-> FALSE, shape |-> "", text |-> <<>>]

\* A field that is absent reads as undefined, which `if (content)` treats
\* as it treats the empty string: both are written <<>> here.
\* parsed.choices?.[0]?.delta?.content
choices0DeltaContent(parsed) == IF parsed.shape = "o" THEN parsed.text ELSE <<>>

\* parsed.choices?.[0]?.text
choices0Text(parsed) == IF parsed.shape = "c" THEN parsed.text ELSE <<>>

\* parsed.type
parsedType(parsed) ==
    IF parsed.shape \in {"t", "j"} THEN "content_block_delta"
    ELSE IF parsed.shape = "m" THEN "message_delta"
    ELSE undefined

\* parsed.delta?.text
deltaText(parsed) == IF parsed.shape \in {"t", "m"} THEN parsed.text ELSE <<>>

(***************************************************************************)
(* The transform() callbacks.  Each takes one transport chunk (bytes) and  *)
(* returns what it hands to controller.enqueue, in order, as a sequence of *)
(* byte strings; streamOpenAI's also says whether it met the sentinel.     *)
(***************************************************************************)
\* The OpenAI loop with the text of a line put before what was enqueued.
RECURSIVE openaiLines_lastFirst(_)
openaiLines_lastFirst(lines) ==
    IF lines = <<>> THEN [emit |-> <<>>, done |-> FALSE]
    ELSE LET line == Head(lines)
             data == slice6(line)
         IN  IF ~startsWithData(line) THEN openaiLines_lastFirst(Tail(lines))
             ELSE IF data = <<"!">> THEN [emit |-> <<>>, done |-> TRUE]
             ELSE LET parsed == JSONparse(data)
                      content == choices0DeltaContent(parsed)
                      rest == openaiLines_lastFirst(Tail(lines))
                  IN  IF parsed.ok /\ content # <<>>
                      THEN [emit |-> rest.emit \o <<encode(content)>>,
                            done |-> rest.done]
                      ELSE rest

\* for (const line of lines) { ... } of streamOpenAI's transform.
RECURSIVE openaiLines(_)
openaiLines(lines) ==
    IF lines = <<>> THEN [emit |-> <<>>, done |-> FALSE]
    ELSE LET line == Head(lines)
             data == slice6(line)
         IN  IF ~startsWithData(line) THEN openaiLines(Tail(lines))
             ELSE IF data = <<"!">> THEN [emit |-> <<>>, done |-> TRUE]
             ELSE LET parsed == JSONparse(data)
                      content == choices0DeltaContent(parsed)
                      rest == openaiLines(Tail(lines))
                  IN  IF parsed.ok /\ content # <<>>
                      THEN [emit |-> <<encode(content)>> \o rest.emit,
                            done |-> rest.done]
                      ELSE rest

\* streamOpenAI: transform(chunk, controller)
transformOpenAI(chunk) == openaiLines(nonBlank(split(decode(chunk))))

\* The Anthropic loop without the test of parsed.type.
RECURSIVE anthropicLines_anyType(_)
anthropicLines_anyType(lines) ==
    IF lines = <<>> THEN <<>>
    ELSE LET line == Head(lines)
             parsed == JSONparse(slice6(line))
             content == deltaText(parsed)
         IN  IF startsWithData(line) /\ parsed.ok /\ content # <<>>
             THEN <<encode(content)>> \o anthropicLines_anyType(Tail(lines))
             ELSE anthropicLines_anyType(Tail(lines))

\* for (const line of lines) { ... } of streamAnthropic's transform.
RECURSIVE anthropicLines(_)
anthropicLines(lines) ==
    IF lines = <<>> THEN <<>>
    ELSE LET line == Head(lines)
             parsed == JSONparse(slice6(line))
             content == deltaText(parsed)
         IN  IF /\ startsWithData(line)
                /\ parsed.ok
                /\ parsedType(parsed) = "content_block_delta"
                /\ content # <<>>
             THEN <<encode(content)>> \o anthropicLines(Tail(lines))
             ELSE anthropicLines(Tail(lines))

\* streamAnthropic: transform(chunk, controller)
transformAnthropic(chunk) ==
    [emit |-> anthropicLines(nonBlank(split(decode(chunk)))), done |-> FALSE]

\* The Ollama loop with no try/catch: the first line that does not parse
\* throws out of transform() and the lines after it are not read.
RECURSIVE ollamaLines_noCatch(_)
ollamaLines_noCatch(lines) ==
    IF lines = <<>> THEN <<>>
    ELSE LET parsed == JSONparse(Head(lines))
             content == choices0Text(parsed)
         IN  IF ~parsed.ok THEN <<>>
             ELSE IF content # <<>>
             THEN <<encode(content)>> \o ollamaLines_noCatch(Tail(lines))
             ELSE ollamaLines_noCatch(Tail(lines))

\* for (const line of lines) { ... } of streamOllama's transform.
RECURSIVE ollamaLines(_)
ollamaLines(lines) ==
    IF lines = <<>> THEN <<>>
    ELSE LET parsed == JSONparse(Head(lines))
             content == choices0Text(parsed)
         IN  IF parsed.ok /\ content # <<>>
             THEN <<encode(content)>> \o ollamaLines(Tail(lines))
             ELSE ollamaLines(Tail(lines))

\* streamOllama: transform(chunk, controller)
transformOllama(chunk) ==
    [emit |-> ollamaLines(nonBlank(split(decode(chunk)))), done |-> FALSE]

\* The transform of the adapter of a streaming provider.
transform(fmt, chunk) ==
    CASE fmt = "openai" -> transformOpenAI(chunk)
      [] fmt = "anthropic" -> transformAnthropic(chunk)
      [] fmt = "ollama" -> transformOllama(chunk)

(***************************************************************************)
(* Request bodies of POST /chat.                                           *)
(***************************************************************************)
Roles == {"user", "assistant"}

Message == [role : Roles, content : {"hi"}]

RECURSIVE SeqsUpTo(_, _)
SeqsUpTo(S, n) ==
    IF n = 0 THEN {<<>>}
    ELSE LET shorter == SeqsUpTo(S, n - 1)
         IN  shorter \cup {Append(q, x) : q \in shorter, x \in S}

\* Values the messages field of a body may hold.  type is the JavaScript
\* type of the value; items are the elements of an array.
JsScalars ==
    {"undefined", "null", "emptyString", "string", "zero", "number", "object"}

MessagesValues ==
    [type : JsScalars, items : {<<>>}]
        \cup [type : {"array"}, items : SeqsUpTo(Message, MaxMsgs)]

\* !messages
falsy(v) == v.type \in {"undefined", "null", "emptyString", "zero"}

\* Array.isArray(messages)
isArray(v) == v.type = "array"

\* What request.json() meets: text that is not JSON ("invalid"), the JSON
\* value null, another JSON value that is not an object with fields
\* ("scalar"), or an object.
Bodies ==
    [json : {"invalid", "null", "scalar"},
     messages : {[type |-> "undefined", items |-> <<>>]}]
        \cup [json : {"object"}, messages : MessagesValues]

(***************************************************************************)
(* Responses and error messages.  A message is the sequence of the pieces  *)
(* its template literal joins.                                             *)
(***************************************************************************)
NoResponse == [status |-> 0, error |-> <<>>]

jsonResponse(error, status) == [status |-> status, error |-> error]

streamResponse == [status |-> 200, error |-> <<>>]

MessagesRequired == <<"messages array is required">>

NoApiKeys ==
    <<"No API keys configured. Set ", "OPENAI_API_KEY", ", ",
      "ANTHROPIC_API_KEY", ", or ", "HUGGINGFACE_API_KEY">>

ApiName(p) ==
    CASE p = "openai" -> "OpenAI"
      [] p = "anthropic" -> "Anthropic"
      [] p = "ollama" -> "Ollama"
      [] p = "huggingface" -> "Hugging Face"

\* An error message that leaves the upstream body text out.
upstreamError_noBody(p, status, text) ==
    <<ApiName(p), " API error: ", ToString(status)>>

\* `${name} API error: ${response.status} - ${error}`
upstreamError(p, status, text) ==
    <<ApiName(p), " API error: ", ToString(status), " - ", text>>

KeyVar(p) ==
    CASE p = "openai" -> "OPENAI_API_KEY"
      [] p = "anthropic" -> "ANTHROPIC_API_KEY"
      [] p = "ollama" -> "OLLAMA_API_KEY"
      [] p = "huggingface" -> "HUGGINGFACE_API_KEY"

\* response.ok
responseOk(status) == status \in 200..299

UpstreamStatuses == {200, 401, 429, 500}

UpstreamErrorTexts == {"", "rate limited"}

(***************************************************************************)
(* Upstream bodies: lines of the provider's format, each ended by a line   *)
(* feed.                                                                   *)
(***************************************************************************)
OpenAIFrames ==
    { <<"D", "{", "o", "a", "}">>,          \* delta with content "a"
      <<"D", "{", "o", "C3", "A9", "}">>,   \* delta with a two-byte character
      <<"D", "{", "o", "}">>,               \* delta without content (role only)
      <<"D", "{", "o", "b">>,               \* truncated JSON
      <<"D", "!">>,                         \* data: [DONE]
      <<"#">> }                             \* a line that is no data line

AnthropicFrames ==
    { <<"D", "{", "t", "a", "}">>,          \* content_block_delta, text "a"
      <<"D", "{", "t", "C3", "A9", "}">>,   \* content_block_delta, two-byte text
      <<"D", "{", "j", "b", "}">>,          \* content_block_delta, no delta.text
      <<"D", "{", "m", "b", "}">>,          \* message_delta carrying delta.text
      <<"D", "{", "t", "b">>,               \* truncated JSON
      <<"#">> }                             \* event: line

OllamaFrames ==
    { <<"{", "c", "a", "}">>,               \* completion fragment, text "a"
      <<"{", "c", "C3", "A9", "}">>,        \* fragment with a two-byte character
      <<"{", "c", "}">>,                    \* fragment with empty text
      <<"{", "o", "b", "}">>,               \* an object without choices[0].text
      <<"{", "c", "b">> }                   \* truncated JSON

StreamingProviders == {"openai", "anthropic", "ollama"}

Frames(fmt) ==
    CASE fmt = "openai" -> OpenAIFrames
      [] fmt = "anthropic" -> AnthropicFrames
      [] fmt = "ollama" -> OllamaFrames

\* The bytes of a body made of the given lines.
RECURSIVE bodyOf(_)
bodyOf(frames) ==
    IF frames = <<>> THEN <<>>
    ELSE Head(frames) \o <<LF>> \o bodyOf(Tail(frames))

\* Bodies of the normalizer specification: up to MaxFrames lines.
StreamBodies(fmt) == {bodyOf(fs) : fs \in SeqsUpTo(Frames(fmt), MaxFrames)}

\* Bodies an upstream answers with in the gateway specification.
GatewayBodies(fmt) ==
    CASE fmt = "openai" ->
           { bodyOf(<< <<"D", "{", "o", "a", "}">>, <<"D", "!">> >>) }
      [] fmt = "anthropic" ->
           { bodyOf(<< <<"#">>, <<"D", "{", "t", "a", "}">> >>) }
      [] fmt = "ollama" ->
           { bodyOf(<< <<"{", "c", "a", "}">>, <<"{", "c", "b">> >>) }

\* Bodies of the non-streaming backend: {generated_text: text} ("g"), the
\* same inside an array, the empty array, and text that is not JSON.
HuggingFaceBodies ==
    { <<"{", "g", "a", "}">>,
      <<"[", "{", "g", "a", "}", "]">>,
      <<"[", "]">>,
      <<"{", "g">> }

\* result.generated_text whatever result is: an array has no such
\* property, and new Response(undefined) has an empty body.
hfGeneratedText_objectOnly(body) ==
    LET good == /\ Len(body) >= 3
                /\ body[1] = "{" /\ body[2] = "g" /\ body[Len(body)] = "}"
        arr == Len(body) >= 2 /\ body[1] = "[" /\ body[Len(body)] = "]"
    IN  IF good THEN [ok |-> TRUE, text |-> SubSeq(body, 3, Len(body) - 1)]
        ELSE [ok |-> arr, text |-> <<>>]

\* callHuggingFace, after response.ok: await response.json() and
\* Array.isArray(result) ? result[0].generated_text : result.generated_text.
\* ok = FALSE when either throws.
hfGeneratedText(body) ==
    LET isArr == Len(body) >= 2 /\ body[1] = "[" /\ body[Len(body)] = "]"
        obj == IF isArr THEN SubSeq(body, 2, Len(body) - 1) ELSE body
        good == /\ Len(obj) >= 3
                /\ obj[1] = "{" /\ obj[2] = "g" /\ obj[Len(obj)] = "}"
    IN  IF good THEN [ok |-> TRUE, text |-> SubSeq(obj, 3, Len(obj) - 1)]
        ELSE [ok |-> FALSE, text |-> <<>>]

(***************************************************************************)
(* getSystemPrompt.  A string the code builds is the sequence of its       *)
(* characters (a job description) or of the pieces a template joins; the   *)
(* prompt is the sequence of its sections, each with its kind and text, in *)
(* the order of the template literal (an empty slot leaves no section).    *)
(***************************************************************************)
\* Types in the interviewTypes array of the configurations examined.
MaxTypes == 2

SupportedTypes ==
    {"coding", "multiple-choice", "behavioral", "technical", "hr", "hiring-manager"}

\* The supported tags and one tag the tables do not know.
TypeTags == SupportedTypes \cup {"system-design"}

\* Every supported type selected, in two orders.
FullSelections ==
    { <<"coding", "behavioral", "technical", "multiple-choice", "hr", "hiring-manager">>,
      <<"hiring-manager", "hr", "multiple-choice", "technical", "behavioral", "coding">> }

SupportedDifficulties == {"beginner", "intermediate", "advanced"}

\* Values of the difficulty field: unset, empty, supported, unrecognized.
Difficulties == SupportedDifficulties \cup {undefined, "", "expert"}

\* Values of the duration field (a number, written as its digits).
Durations == {undefined, "0", "45"}

\* Values of the jobDescription field: unset, null, a value that is no
\* string, or a string (its characters).
JobDescriptions ==
    [type : {"undefined", "null", "number"}, chars : {<<>>}]
        \cup [type : {"string"},
              chars : {<<>>, <<" ", " ">>, <<"d", "e", "v">>, <<" ", "d", "e", "v", " ">>}]

\* Values of the interviewTypes field: unset, null, a value that is no
\* array (a string, a plain object), or an array of tags.
InterviewTypesValues ==
    [type : {"undefined", "null", "string", "object"}, items : {<<>>}]
        \cup [type : {"array"}, items : SeqsUpTo(TypeTags, MaxTypes)]
        \cup [type : {"array"}, items : FullSelections]

Configs ==
    [jobDescription : JobDescriptions, interviewTypes : InterviewTypesValues,
     difficulty : Difficulties, duration : Durations]

\* String.prototype.trim() on a sequence of characters.
RECURSIVE trimStart(_)
trimStart(chars) ==
    IF chars # <<>> /\ Head(chars) = " " THEN trimStart(Tail(chars)) ELSE chars

RECURSIVE trimEnd(_)
trimEnd(chars) ==
    IF chars # <<>> /\ chars[Len(chars)] = " "
    THEN trimEnd(SubSeq(chars, 1, Len(chars) - 1)) ELSE chars

trim(chars) == trimEnd(trimStart(chars))

\* x is null or undefined: `x?.f()` is undefined and `x || y` is y.
nullish(v) == v.type \in {"undefined", "null"}

\* The table read without `|| t`: a tag it does not hold reads undefined.
typeDescriptions_noFallback(t) ==
    CASE t = "coding" -> "live coding challenges and algorithm questions"
      [] t = "multiple-choice" -> "quiz-style knowledge checks"
      [] t = "behavioral" -> "situational and behavioral questions (STAR method)"
      [] t = "technical" -> "deep technical concepts and system knowledge"
      [] t = "hr" -> "culture fit, soft skills, and career goals"
      [] t = "hiring-manager" -> "leadership, vision, and strategic thinking"
      [] OTHER -> undefined

\* const typeDescriptions: Record<string, string>, read as typeDescriptions[t] || t
typeDescriptions(t) ==
    CASE t = "coding" -> "live coding challenges and algorithm questions"
      [] t = "multiple-choice" -> "quiz-style knowledge checks"
      [] t = "behavioral" -> "situational and behavioral questions (STAR method)"
      [] t = "technical" -> "deep technical concepts and system knowledge"
      [] t = "hr" -> "culture fit, soft skills, and career goals"
      [] t = "hiring-manager" -> "leadership, vision, and strategic thinking"
      [] OTHER -> t

\* const typeLabels: Record<string, string>, read as typeLabels[t] || t
typeLabels(t) ==
    CASE t = "coding" -> "coding exercise"
      [] t = "behavioral" -> "behavioral questions"
      [] t = "technical" -> "technical discussion"
      [] t = "multiple-choice" -> "knowledge quiz"
      [] t = "hr" -> "HR/culture fit discussion"
      [] t = "hiring-manager" -> "leadership assessment"
      [] OTHER -> t

\* const difficultyDescriptions: Record<string, string> (undefined for a
\* key the table does not hold).
difficultyDescriptions(d) ==
    CASE d = "beginner" -> "entry-level, focusing on fundamentals and basic concepts"
      [] d = "intermediate" -> "mid-level, covering practical experience and problem-solving"
      [] d = "advanced" ->
           "senior-level, including system design, architecture, and complex scenarios"
      [] OTHER -> undefined

\* The difficulty description read with the key as given, without
\* `|| "intermediate"`.
difficultyLevel_noDefault(difficulty) ==
    IF difficultyDescriptions(difficulty) # undefined
    THEN difficultyDescriptions(difficulty)
    ELSE "mid-level difficulty"

\* difficultyDescriptions[difficulty || "intermediate"] || "mid-level difficulty"
difficultyLevel(difficulty) ==
    LET key == IF difficulty \in {undefined, ""} THEN "intermediate" ELSE difficulty
    IN  IF difficultyDescriptions(key) # undefined
        THEN difficultyDescriptions(key)
        ELSE "mid-level difficulty"

\* duration ? `${duration} minute` : "30 minute"
sessionLength(duration) ==
    IF duration \notin {undefined, "0"} THEN <<duration, " minute">>
    ELSE <<"30 minute">>

\* interviewTypes?.map((t) => typeDescriptions[t] || t).join(", ")
\*     || "general technical questions"
selectedTypes(interviewTypes) ==
    IF nullish(interviewTypes) \/ interviewTypes.items = <<>>
    THEN <<"general technical questions">>
    ELSE [i \in 1..Len(interviewTypes.items) |->
              typeDescriptions(interviewTypes.items[i])]

\* A context section that embeds the trimmed job description.
contextSection_trimmed(jobDescription) ==
    IF ~nullish(jobDescription) /\ trim(jobDescription.chars) # <<>>
    THEN <<[kind |-> "job", text |-> trim(jobDescription.chars)]>>
    ELSE <<>>

\* let contextSection = ""; if (jobDescription?.trim()) contextSection = ...
contextSection(jobDescription) ==
    IF ~nullish(jobDescription) /\ trim(jobDescription.chars) # <<>>
    THEN <<[kind |-> "job", text |-> jobDescription.chars]>>
    ELSE <<>>

\* switch (difficulty) { case "beginner" ... case "advanced" ... default }
difficultyInstructions(difficulty) ==
    CASE difficulty = "beginner" ->
           <<[kind |-> "difficulty", text |-> <<"Beginner-Level Guidelines">>]>>
      [] difficulty = "advanced" ->
           <<[kind |-> "difficulty", text |-> <<"Advanced-Level Guidelines">>]>>
      [] OTHER ->
           <<[kind |-> "difficulty", text |-> <<"Intermediate-Level Guidelines">>]>>

\* The last line of the coding block.
codingLevel(difficulty) ==
    IF difficulty = "beginner" THEN "beginner level: use simple problems"
    ELSE IF difficulty = "advanced" THEN "advanced level: include dynamic programming"
    ELSE "intermediate level: include medium complexity problems"

\* The last line of the technical block.
technicalLevel(difficulty) ==
    IF difficulty = "advanced"
    THEN "Include system design scenarios and scalability discussions"
    ELSE "Focus on core concepts and practical application"

\* The block of one type (<<>> for a tag that has none).
typeBlock(t, difficulty) ==
    CASE t = "coding" ->
           <<[kind |-> "type",
              text |-> <<"Coding Interview Instructions", codingLevel(difficulty)>>]>>
      [] t = "behavioral" ->
           <<[kind |-> "type", text |-> <<"Behavioral Interview Instructions">>]>>
      [] t = "technical" ->
           <<[kind |-> "type",
              text |-> <<"Technical Interview Instructions", technicalLevel(difficulty)>>]>>
      [] t = "multiple-choice" ->
           <<[kind |-> "type", text |-> <<"Multiple-Choice Instructions">>]>>
      [] t = "hr" ->
           <<[kind |-> "type", text |-> <<"HR Interview Instructions">>]>>
      [] t = "hiring-manager" ->
           <<[kind |-> "type", text |-> <<"Hiring Manager Interview Instructions">>]>>
      [] OTHER -> <<>>

\* types.includes(t)
includes(types, t) == \E i \in 1..Len(types) : types[i] = t

\* The order of the if statements that append the blocks.
BlockOrder ==
    <<"coding", "behavioral", "technical", "multiple-choice", "hr", "hiring-manager">>

\* Blocks appended while walking the selected types, one per entry.
RECURSIVE typeInstructions_selectionOrder(_, _)
typeInstructions_selectionOrder(types, difficulty) ==
    IF types = <<>> THEN <<>>
    ELSE typeBlock(Head(types), difficulty)
             \o typeInstructions_selectionOrder(Tail(types), difficulty)

\* The if statements in the order given, from the k-th on.
RECURSIVE typeInstructionsFrom(_, _, _)
typeInstructionsFrom(k, types, difficulty) ==
    IF k > Len(BlockOrder) THEN <<>>
    ELSE (IF includes(types, BlockOrder[k])
          THEN typeBlock(BlockOrder[k], difficulty) ELSE <<>>)
             \o typeInstructionsFrom(k + 1, types, difficulty)

\* let typeInstructions = ""; if (types.includes("coding")) typeInstructions += ...
typeInstructions(types, difficulty) == typeInstructionsFrom(1, types, difficulty)

\* A hybrid block added only from three types on.
hybridInstructions_fromThree(types) ==
    IF Len(types) > 2
    THEN <<[kind |-> "hybrid",
            text |-> [i \in 1..Len(types) |-> typeLabels(types[i])]
                         \o <<typeLabels(types[2])>>]>>
    ELSE <<>>

\* if (types.length > 1) { orderedTypes = types.map(...); hybridInstructions = ... }
\* The text is orderedTypes followed by orderedTypes[1], the section the
\* transition example names.
hybridInstructions(types) ==
    IF Len(types) > 1
    THEN <<[kind |-> "hybrid",
            text |-> [i \in 1..Len(types) |-> typeLabels(types[i])]
                         \o <<typeLabels(types[2])>>]>>
    ELSE <<>>

\* A template that puts the type blocks and the hybrid block before the
\* difficulty block.
getSystemPrompt_typesFirst(c) ==
    IF \/ ~nullish(c.interviewTypes) /\ c.interviewTypes.type # "array"
       \/ ~nullish(c.jobDescription) /\ c.jobDescription.type # "string"
    THEN [ok |-> FALSE, prompt |-> <<>>]
    ELSE LET types == IF nullish(c.interviewTypes) THEN <<>>
                      ELSE c.interviewTypes.items
         IN  [ok |-> TRUE,
              prompt |->
                  <<[kind |-> "persona",
                     text |-> sessionLength(c.duration)
                                  \o <<difficultyLevel(c.difficulty)>>],
                    [kind |-> "focus", text |-> selectedTypes(c.interviewTypes)]>>
                  \o contextSection(c.jobDescription)
                  \o <<[kind |-> "core", text |-> <<"Core Guidelines">>]>>
                  \o typeInstructions(types, c.difficulty)
                  \o hybridInstructions(types)
                  \o difficultyInstructions(c.difficulty)]

\* getSystemPrompt(jobDescription, interviewTypes, difficulty, duration).
\* ok = FALSE when it throws: interviewTypes?.map on a value that is neither
\* nullish nor an array, jobDescription?.trim on one that is neither nullish
\* nor a string.
getSystemPrompt(c) ==
    IF \/ ~nullish(c.interviewTypes) /\ c.interviewTypes.type # "array"
       \/ ~nullish(c.jobDescription) /\ c.jobDescription.type # "string"
    THEN [ok |-> FALSE, prompt |-> <<>>]
    ELSE LET types == IF nullish(c.interviewTypes) THEN <<>>
                      ELSE c.interviewTypes.items
         IN  [ok |-> TRUE,
              prompt |->
                  <<[kind |-> "persona",
                     text |-> sessionLength(c.duration)
                                  \o <<difficultyLevel(c.difficulty)>>],
                    [kind |-> "focus", text |-> selectedTypes(c.interviewTypes)]>>
                  \o contextSection(c.jobDescription)
                  \o <<[kind |-> "core", text |-> <<"Core Guidelines">>]>>
                  \o difficultyInstructions(c.difficulty)
                  \o typeInstructions(types, c.difficulty)
                  \o hybridInstructions(types)]

\* The message getSystemPrompt's TypeError carries: line 41 runs before
\* line 45.
getSystemPromptError(c) ==
    IF ~nullish(c.interviewTypes) /\ c.interviewTypes.type # "array"
    THEN <<"interviewTypes?.map is not a function">>
    ELSE <<"jobDescription?.trim is not a function">>

\* The configuration of a request that sets none of the optional fields.
NoConfig ==
    [jobDescription |-> [type |-> "undefined", chars |-> <<>>],
     interviewTypes |-> [type |-> "undefined", items |-> <<>>],
     difficulty |-> undefined, duration |-> undefined]

\* The local `systemPrompt` of POST: not assigned yet, assigned, or
\* getSystemPrompt threw.
NoPrompt == [state |-> "none", prompt |-> <<>>]

assigned(r) == [state |-> IF r.ok THEN "built" ELSE "threw", prompt |-> r.prompt]

(***************************************************************************)
(* The upstream request of each adapter: the system prompt and, for each   *)
(* message the request holds, the label it is sent under and its content.  *)
(***************************************************************************)
\* Messages of the conversations dispatched.
MaxChat == 2

ChatRoles == {"system", "user", "assistant"}

ChatMessage == [role : ChatRoles, content : {"hi", "ok"}]

ChatBodies ==
    [json : {"object"},
     messages : [type : {"array"}, items : SeqsUpTo(ChatMessage, MaxChat)]]

NoRequest == [to |-> null, system |-> <<>>, items |-> <<>>]

\* streamOpenAI: messages: [{role: "system", content: systemPrompt}, ...messages]
openaiRequest(messages, systemPrompt) ==
    [to |-> "openai", system |-> systemPrompt,
     items |-> [i \in 1..Len(messages) |->
                   [label |-> messages[i].role, content |-> messages[i].content]]]

\* streamAnthropic: system: systemPrompt, messages: messages.map((msg) =>
\* ({role: msg.role === "assistant" ? "assistant" : "user", content: msg.content}))
anthropicRequest(messages, systemPrompt) ==
    [to |-> "anthropic", system |-> systemPrompt,
     items |-> [i \in 1..Len(messages) |->
                   [label |-> IF messages[i].role = "assistant"
                              THEN "assistant" ELSE "user",
                    content |-> messages[i].content]]]

\* streamOllama: [`System: ${systemPrompt}`, ...messages.map((m) =>
\* `${m.role === "user" ? "User" : "Assistant"}: ${m.content}`)].join("\n")
ollamaRequest(messages, systemPrompt) ==
    [to |-> "ollama", system |-> systemPrompt,
     items |-> [i \in 1..Len(messages) |->
                   [label |-> IF messages[i].role = "user"
                              THEN "User" ELSE "Assistant",
                    content |-> messages[i].content]]]

\* formatMessagesAsPrompt: a user message is wrapped in [INST] ... [/INST],
\* an assistant message is closed by </s>, a message of another role adds
\* nothing to the prompt.
RECURSIVE formatMessagesAsPrompt(_)
formatMessagesAsPrompt(messages) ==
    IF messages = <<>> THEN <<>>
    ELSE (IF Head(messages).role = "user"
          THEN <<[label |-> "[INST]", content |-> Head(messages).content]>>
          ELSE IF Head(messages).role = "assistant"
          THEN <<[label |-> "</s>", content |-> Head(messages).content]>>
          ELSE <<>>)
             \o formatMessagesAsPrompt(Tail(messages))

\* callHuggingFace: inputs: formatMessagesAsPrompt(messages, systemPrompt)
huggingfaceRequest(messages, systemPrompt) ==
    [to |-> "huggingface", system |-> systemPrompt,
     items |-> formatMessagesAsPrompt(messages)]

\* switch (provider) { case "openai": return await streamOpenAI(...) ... }
adapterRequest(p, messages, systemPrompt) ==
    CASE p = "openai" -> openaiRequest(messages, systemPrompt)
      [] p = "anthropic" -> anthropicRequest(messages, systemPrompt)
      [] p = "ollama" -> ollamaRequest(messages, systemPrompt)
      [] p = "huggingface" -> huggingfaceRequest(messages, systemPrompt)

\* await response.json() resolves once the upstream body has ended.
jsonResolves(body, p) == p = Len(body)

(***************************************************************************)
(* GET /chat.                                                              *)
(***************************************************************************)
NoHealth ==
    [status |-> "", provider |-> "",
     availableProviders |->
         [openai |-> FALSE, anthropic |-> FALSE, huggingface |-> FALSE]]

\* NextResponse.json({status: "ok", provider: provider || "none",
\*                    availableProviders: {openai: !!..., anthropic: !!...,
\*                                         huggingface: !!...}})
GET_response(e) ==
    [status |-> "ok",
     provider |-> IF detectProvider(e) = null THEN "none" ELSE detectProvider(e),
     availableProviders |->
         [openai |-> EnvTruthy(e["OPENAI_API_KEY"]),
          anthropic |-> EnvTruthy(e["ANTHROPIC_API_KEY"]),
          huggingface |-> EnvTruthy(e["HUGGINGFACE_API_KEY"])]]

(***************************************************************************)
(* The chat hook of the UI (useChat) and the store it writes.  The content *)
(* of a message is the sequence of its characters.                         *)
(***************************************************************************)
\* Calls of sendMessage followed.
MaxSends == 2

\* Concurrent requests to POST /chat followed.
MaxRequests == 2

\* What the user submits: a text, a blank text, nothing.
UserInputs == { <<"h", "i">>, <<" ">>, <<>> }

\* Response bodies of /api/chat, as the chunks the reader delivers: no
\* chunk, one chunk, two chunks that cut a two-byte character.
ClientStreams == { <<>>, << <<"a">> >>, << <<"C3">>, <<"A9", "b">> >> }

\* Statuses of the response of /api/chat.
ClientStatuses == {200, 500}

\* TextDecoder.decode(value, {stream: true}): the bytes kept from the chunk
\* before are decoded with this chunk, and a lead byte that ends the chunk
\* is kept for the next.
decodeStream(pending, value) ==
    LET bytes == pending \o value
        keep == bytes # <<>> /\ bytes[Len(bytes)] = "C3"
    IN  [text |-> decode(IF keep THEN SubSeq(bytes, 1, Len(bytes) - 1) ELSE bytes),
         pending |-> IF keep THEN <<"C3">> ELSE <<>>]

\* addMessage: set((state) => ({messages: [...state.messages, message]}))
addMessage(msgs, message) == Append(msgs, message)

\* The streaming update: the last message, when it is an assistant message,
\* gets the accumulated content.
updateLast(msgs, content) ==
    IF msgs # <<>> /\ msgs[Len(msgs)].role = "assistant"
    THEN [msgs EXCEPT ![Len(msgs)] = [role |-> "assistant", content |-> content]]
    ELSE msgs

\* A removal test that looks at the role alone.
removable_anyAssistant(msg) == msg.role = "assistant"

\* updatedMessages[lastIndex].role === "assistant" && !updatedMessages[lastIndex].content
removable(msg) == msg.role = "assistant" /\ msg.content = <<>>

\* The catch block's update of the store: the last message is popped when
\* it is removable.
removeEmptyAssistant(msgs) ==
    IF msgs # <<>> /\ removable(msgs[Len(msgs)])
    THEN SubSeq(msgs, 1, Len(msgs) - 1)
    ELSE msgs

\* errorData.error || `HTTP error: ${response.status}`; a rejected fetch or
\* read carries its own message.
clientError(status) ==
    IF status = 0 THEN <<"network error">>
    ELSE <<"HTTP error: ", ToString(status)>>

(***************************************************************************)
(* The scorecard route.                                                    *)
(***************************************************************************)
\* detectProvider() of the scorecard route.
scorecardDetectProvider(e) ==
    IF EnvTruthy(e["OPENAI_API_KEY"]) THEN "openai"
    ELSE IF EnvTruthy(e["ANTHROPIC_API_KEY"]) THEN "anthropic"
    ELSE IF EnvTruthy(e["HUGGINGFACE_API_KEY"]) THEN "huggingface"
    ELSE null

scorecardInvalid_noLength(messages) == falsy(messages) \/ ~isArray(messages)

\* !messages || !Array.isArray(messages) || messages.length === 0
scorecardInvalid(messages) ==
    falsy(messages) \/ ~isArray(messages) \/ Len(messages.items) = 0

MessagesMustNotBeEmpty ==
    <<"Invalid request: messages array is required and must not be empty">>

ScorecardNoApiKeys ==
    <<"No API keys configured. Please set one of: ", "OPENAI_API_KEY", ", ",
      "ANTHROPIC_API_KEY", ", or ", "HUGGINGFACE_API_KEY">>

NoContent(p) == <<"No content in ", ApiName(p), " response">>

\* A JavaScript value met where a score is read: no such field, a number,
\* or a string that is not a number.  NaN is what Math.max makes of the
\* last.
Missing == [k |-> "missing", n |-> 0]

Num(n) == [k |-> "number", n |-> n]

NotANumber == [k |-> "NaN", n |-> 0]

ScoreNumbers == {-1, 0, 1, 7, 10, 11}

ScoreValues ==
    {Missing, [k |-> "string", n |-> 0]} \cup {Num(n) : n \in ScoreNumbers}

\* The text of a model's reply, as the pieces parseScorecard tells apart:
\* white space, a ``` fence (with or without "json"), prose without braces,
\* the JSON text null, text in braces that is not JSON, and a JSON object
\* with its three score fields (technicalAccuracy absent: ta.k = "absent").
Piece(t) == [t |-> t, ta |-> Missing, cs |-> Missing, overall |-> Missing]

ScoreObjects ==
    [t : {"object"},
     ta : ScoreValues \cup {[k |-> "absent", n |-> 0]},
     cs : {Missing, Num(7)},
     overall : ScoreValues]

ScoreContents ==
    UNION {{ <<o>>,
             <<Piece("ws"), o, Piece("ws")>>,
             <<Piece("fence"), Piece("ws"), o, Piece("ws"), Piece("fence")>>,
             <<Piece("prose"), Piece("fence"), o, Piece("fence"), Piece("prose")>>,
             <<Piece("prose"), o, Piece("prose")>>,
             <<o, Piece("prose"), o>> } : o \in ScoreObjects}
        \cup { <<Piece("prose")>>, <<Piece("null")>>, <<Piece("malformed")>>,
               <<Piece("fence"), Piece("prose"), Piece("fence")>>,
               <<Piece("prose"), Piece("malformed"), Piece("prose")>> }

\* content.trim()
trimPieces(q) ==
    LET isWs(i) == q[i].t = "ws"
        nonWs == {i \in 1..Len(q) : ~isWs(i)}
    IN  IF nonWs = {} THEN <<>>
        ELSE SubSeq(q, CHOOSE i \in nonWs : \A j \in nonWs : i <= j,
                       CHOOSE i \in nonWs : \A j \in nonWs : j <= i)

\* jsonStr.match(/```(?:json)?\s*([\s\S]*?)```/): the text between the first
\* fence and the next one, trimmed; the text itself when there is no pair.
fenced(q) ==
    LET fences == {i \in 1..Len(q) : q[i].t = "fence"}
    IN  IF Cardinality(fences) < 2 THEN q
        ELSE LET a == CHOOSE i \in fences : \A j \in fences : i <= j
                 b == CHOOSE i \in fences \ {a} : \A j \in fences \ {a} : i <= j
             IN  trimPieces(SubSeq(q, a + 1, b - 1))

\* jsonStr.match(/\{[\s\S]*\}/): from the first opening brace to the last
\* closing brace; the text itself when there is no brace pair.
braced(q) ==
    LET braces == {i \in 1..Len(q) : q[i].t \in {"object", "malformed"}}
    IN  IF braces = {} THEN q
        ELSE SubSeq(q, CHOOSE i \in braces : \A j \in braces : i <= j,
                       CHOOSE i \in braces : \A j \in braces : j <= i)

\* JSON.parse(jsonStr): the value, or a SyntaxError.
scorecardJSONparse(q) ==
    IF Len(q) = 1 /\ q[1].t \in {"object", "null"}
    THEN [ok |-> TRUE, value |-> q[1]]
    ELSE [ok |-> FALSE, value |-> Piece("malformed")]

\* v || 5
orFive(v) ==
    IF v.k \in {"missing", "absent"} \/ (v.k = "number" /\ v.n = 0) THEN Num(5)
    ELSE v

\* Math.max(1, v) and Math.min(10, v); a string that is not a number
\* converts to NaN, and NaN stays NaN.
MathMax(n, v) ==
    IF v.k = "number" THEN Num(IF v.n > n THEN v.n ELSE n) ELSE NotANumber

MathMin(n, v) ==
    IF v.k = "number" THEN Num(IF v.n < n THEN v.n ELSE n) ELSE NotANumber

\* Math.min(10, Math.max(1, score || 5))
clampScore(v) == MathMin(10, MathMax(1, orFive(v)))

DefaultScorecard ==
    [technicalAccuracy |-> Num(5), communicationSkills |-> Num(5),
     overallScore |-> Num(5), parsed |-> FALSE]

NoScorecard ==
    [technicalAccuracy |-> Missing, communicationSkills |-> Missing,
     overallScore |-> Missing, parsed |-> FALSE]

\* parseScorecard(content); reading a field of null throws inside the try
\* block.  parsed.technicalAccuracy?.score is undefined when the section
\* is absent.
parseScorecard(content) ==
    LET p == scorecardJSONparse(braced(fenced(trimPieces(content))))
    IN  IF ~p.ok \/ p.value.t = "null" THEN DefaultScorecard
        ELSE [technicalAccuracy |-> clampScore(p.value.ta),
              communicationSkills |-> clampScore(p.value.cs),
              overallScore |-> clampScore(p.value.overall),
              parsed |-> TRUE]

(***************************************************************************)
(* State.                                                                  *)
(***************************************************************************)
VARIABLES
    env,              \* process.env, the credential variables
    pc,               \* where the request in progress is
    stages,           \* the dispatcher's stages the request has entered
    reqBody,          \* the body of the request
    provider,         \* POST's local `provider` (null before detectProvider())
    prevProvider,     \* what the request before this one resolved
    fetches,          \* the upstream calls this request has issued
    upStatus,         \* status of the upstream response (0: none yet)
    upText,           \* body text of a failed upstream response
    resp,             \* the response POST returned (status 0: none yet)
    upBody,           \* bytes of the upstream body being streamed
    pos,              \* how many of them the transport has delivered
    out,              \* byte strings enqueued on the response stream
    outClosed,        \* the response stream is closed
    sentinelObserved, \* transform() has met `data: [DONE]`
    lineCut,          \* the transport has cut a chunk inside a line
    config,           \* jobDescription, interviewTypes, difficulty, duration of the body
    systemPrompt,     \* POST's local `systemPrompt`
    upRequest,        \* the request the adapter has sent upstream
    health,           \* the last response of GET /chat
    storeMessages,    \* the store's messages (useInterviewStore)
    isLoading,        \* useChat's isLoading state
    error,            \* useChat's error state
    isSpeaking,       \* the store's isSpeaking
    closure,          \* messages and isLoading as the current sendMessage captured them
    calls,            \* the calls of sendMessage: position and locals of each
    currentStep,      \* the store's currentStep: which screen the page shows
    timer,            \* the pending timer of handleRestartInterview and what it captured
    hasStarted,       \* hasStartedRef.current of the mounted InterviewPage
    slots,            \* where in the store the temporary message of each call is (0: nowhere), followed on the page
    scPc,             \* where the scorecard request in progress is
    scBody,           \* the body of the scorecard request
    scProvider,       \* the scorecard POST's local `provider`
    scFetches,        \* the upstream calls the scorecard request has issued
    scResp,           \* the response the scorecard POST returned (status 0: none yet)
    scContent,        \* the text the model returned for the scorecard
    scorecard,        \* the scorecard parseScorecard returned
    reqs              \* concurrent POST /chat requests, each with its own locals

vars ==
    <<env, pc, stages, reqBody, provider, prevProvider, fetches, upStatus,
      upText, resp, upBody, pos, out, outClosed, sentinelObserved, lineCut,
      config, systemPrompt, upRequest, health,
      storeMessages, isLoading, error, isSpeaking, closure, calls,
      currentStep, timer, hasStarted, slots,
      scPc, scBody, scProvider, scFetches, scResp, scContent, scorecard, reqs>>

streamVars == <<upBody, pos, out, outClosed, sentinelObserved, lineCut>>

promptVars == <<config, systemPrompt, upRequest>>

uiVars == <<currentStep, timer, hasStarted>>

clientVars ==
    <<storeMessages, isLoading, error, isSpeaking, closure, calls, uiVars,
      slots>>

scoreVars ==
    <<scPc, scBody, scProvider, scFetches, scResp, scContent, scorecard>>

gatewayVars ==
    <<env, pc, stages, reqBody, provider, prevProvider, fetches, upStatus,
      upText, resp, streamVars, promptVars>>

\* No call has a temporary message in the store.
NoSlots == [i \in 1..MaxSends |-> 0]

\* No timer is pending.
NoTimer == [set |-> FALSE, messages |-> <<>>, isLoading |-> FALSE, live |-> FALSE]

\* startInterview's message.
Opening == <<"H", "e", "l", "l", "o">>

\* No scorecard request.
InitScorecard ==
    /\ scPc = "idle"
    /\ scBody = [json |-> "scalar", messages |-> [type |-> "undefined", items |-> <<>>]]
    /\ scProvider = null
    /\ scFetches = <<>>
    /\ scResp = NoResponse
    /\ scContent = <<>>
    /\ scorecard = NoScorecard

\* The interview screen at its first render, before the first message.
InitClient ==
    /\ storeMessages = <<>>
    /\ isLoading = FALSE
    /\ error = null
    /\ isSpeaking = FALSE
    /\ closure = [messages |-> <<>>, isLoading |-> FALSE, live |-> TRUE]
    /\ calls = <<>>
    /\ currentStep = "interviewing"
    /\ timer = NoTimer
    /\ hasStarted = TRUE
    /\ slots = NoSlots

NoBody == [json |-> "scalar", messages |-> [type |-> "undefined", items |-> <<>>]]

\* The gateway before the first request.
InitGateway ==
    /\ env \in [CredVars -> {undefined}]
    /\ pc = "idle"
    /\ stages = <<>>
    /\ reqBody = NoBody
    /\ provider = null
    /\ prevProvider = null
    /\ fetches = <<>>
    /\ upStatus = 0
    /\ upText = ""
    /\ resp = NoResponse
    /\ upBody = <<>>
    /\ pos = 0
    /\ out = <<>>
    /\ outClosed = FALSE
    /\ sentinelObserved = FALSE
    /\ lineCut = FALSE
    /\ config = NoConfig
    /\ systemPrompt = NoPrompt
    /\ upRequest = NoRequest

Init ==
    /\ InitGateway
    /\ health = NoHealth
    /\ InitClient /\ InitScorecard /\ reqs = <<>>

\* The deployment sets, changes or unsets a credential variable.
SetEnv(v, val) ==
    /\ env[v] # val
    /\ env' = [env EXCEPT ![v] = val]
    /\ UNCHANGED <<pc, stages, reqBody, provider, prevProvider, fetches,
                   upStatus, upText, resp>>
    /\ UNCHANGED <<streamVars, promptVars, health, scoreVars, reqs, clientVars>>

\* A POST /chat request arrives; the handler awaits request.json().
\* One request is followed at a time: the next arrives once the response
\* of this one is complete.
ReceiveRequest(b, c) ==
    /\ pc \in {"idle", "closed", "error"}
    /\ pc' = "json"
    /\ stages' = <<"Validating">>
    /\ reqBody' = b
    /\ config' = c
    /\ systemPrompt' = NoPrompt
    /\ upRequest' = NoRequest
    /\ provider' = null
    /\ prevProvider' = IF provider # null THEN provider ELSE prevProvider
    /\ fetches' = <<>>
    /\ upStatus' = 0
    /\ upText' = ""
    /\ resp' = NoResponse
    /\ upBody' = <<>>
    /\ pos' = 0
    /\ out' = <<>>
    /\ outClosed' = FALSE
    /\ sentinelObserved' = FALSE
    /\ lineCut' = FALSE
    /\ UNCHANGED <<env, health, scoreVars, reqs, clientVars>>

\* A provider resolved once and kept: the result of the request before.
POST_provider_cached ==
    IF prevProvider # null THEN prevProvider ELSE detectProvider(env)

\* const provider = detectProvider();
POST_provider == detectProvider(env)

\* A validation that tests only `!messages`.
POST_invalid_truthyOnly(messages) == falsy(messages)

\* if (!messages || !Array.isArray(messages))
POST_invalid(messages) == falsy(messages) \/ ~isArray(messages)

\* Without the `if (!provider)` test a null provider falls to the default
\* case of the switch.
POST_noProvider_default == jsonResponse(<<"Unknown provider">>, 500)

\* if (!provider) return NextResponse.json({error: "No API keys ..."}, {status: 500})
POST_noProvider == jsonResponse(NoApiKeys, 500)

\* The catch block of POST: error.message in a 500.
POST_catch(message) == jsonResponse(message, 500)

\* POST, from the resolution of request.json() to its first await of an
\* upstream: validation, detectProvider(), getSystemPrompt() and the
\* adapter up to its fetch() run without yielding.
POST ==
    /\ pc = "json"
    /\ UNCHANGED <<env, reqBody, prevProvider, upStatus, upText, config>>
    /\ UNCHANGED <<streamVars, health, scoreVars, reqs, clientVars>>
    /\ IF reqBody.json = "invalid"
       THEN \* request.json() rejects
            /\ resp' = POST_catch(<<"Unexpected token in JSON">>)
            /\ pc' = "error"
            /\ stages' = Append(stages, "Error")
            /\ UNCHANGED <<provider, fetches, systemPrompt, upRequest>>
       ELSE IF reqBody.json = "null"
       THEN \* destructuring null throws a TypeError
            /\ resp' = POST_catch(<<"Cannot destructure property 'messages'">>)
            /\ pc' = "error"
            /\ stages' = Append(stages, "Error")
            /\ UNCHANGED <<provider, fetches, systemPrompt, upRequest>>
       ELSE IF POST_invalid(reqBody.messages)
       THEN /\ resp' = jsonResponse(MessagesRequired, 400)
            /\ pc' = "error"
            /\ stages' = Append(stages, "Error")
            /\ UNCHANGED <<provider, fetches, systemPrompt, upRequest>>
       ELSE /\ provider' = POST_provider
            /\ IF provider' = null
               THEN /\ resp' = POST_noProvider
                    /\ pc' = "error"
                    /\ stages' = stages \o <<"ResolvingProvider", "Error">>
                    /\ UNCHANGED <<fetches, systemPrompt, upRequest>>
               ELSE /\ systemPrompt' = assigned(getSystemPrompt(config))
                    /\ IF systemPrompt'.state = "threw"
                       THEN \* the TypeError reaches the catch block
                            /\ resp' = POST_catch(getSystemPromptError(config))
                            /\ pc' = "error"
                            /\ stages' = stages \o
                                   <<"ResolvingProvider", "BuildingPrompt", "Error">>
                            /\ UNCHANGED <<fetches, upRequest>>
                       ELSE /\ upRequest' = adapterRequest(provider',
                                                           reqBody.messages.items,
                                                           systemPrompt'.prompt)
                            /\ fetches' = Append(fetches,
                                                 [provider |-> provider',
                                                  key |-> env[KeyVar(provider')]])
                            /\ pc' = "fetch"
                            /\ stages' = stages \o
                                   <<"ResolvingProvider", "BuildingPrompt",
                                     "Dispatching">>
                            /\ UNCHANGED resp

\* fetch() rejects (the upstream cannot be reached): the catch block.
FetchRejects ==
    /\ pc = "fetch"
    /\ resp' = POST_catch(<<"fetch failed">>)
    /\ pc' = "error"
    /\ stages' = Append(stages, "Error")
    /\ UNCHANGED <<env, reqBody, provider, prevProvider, fetches, upStatus, upText>>
    /\ UNCHANGED <<streamVars, promptVars, health, scoreVars, reqs, clientVars>>

\* A dispatcher that calls the upstream once more after a failed answer.
UpstreamFails_retry(status, text) ==
    /\ pc = "fetch"
    /\ ~responseOk(status)
    /\ upStatus' = status
    /\ upText' = text
    /\ IF Len(fetches) < 2
       THEN /\ fetches' = Append(fetches, fetches[Len(fetches)])
            /\ stages' = Append(stages, "Dispatching")
            /\ UNCHANGED <<pc, resp>>
       ELSE /\ resp' = POST_catch(upstreamError(provider, status, text))
            /\ pc' = "error"
            /\ stages' = Append(stages, "Error")
            /\ UNCHANGED fetches
    /\ UNCHANGED <<env, reqBody, provider, prevProvider>>
    /\ UNCHANGED <<streamVars, promptVars, health, scoreVars, reqs, clientVars>>

\* The upstream answers with a non-success status and a body text:
\* if (!response.ok) { const error = await response.text(); throw new Error(...) }
\* and the catch block of POST.
UpstreamFails(status, text) ==
    /\ pc = "fetch"
    /\ ~responseOk(status)
    /\ upStatus' = status
    /\ upText' = text
    /\ resp' = POST_catch(upstreamError(provider, status, text))
    /\ pc' = "error"
    /\ stages' = Append(stages, "Error")
    /\ UNCHANGED <<env, reqBody, provider, prevProvider, fetches>>
    /\ UNCHANGED <<streamVars, promptVars, health, scoreVars, reqs, clientVars>>

\* A streaming upstream answers with a success status: the adapter returns
\* new Response(response.body?.pipeThrough(transformStream)).
UpstreamStreams(status, body) ==
    /\ pc = "fetch"
    /\ provider \in StreamingProviders
    /\ responseOk(status)
    /\ body \in GatewayBodies(provider)
    /\ upStatus' = status
    /\ upBody' = body
    /\ resp' = streamResponse
    /\ pc' = "streaming"
    /\ stages' = Append(stages, "Streaming")
    /\ UNCHANGED <<env, reqBody, provider, prevProvider, fetches, upText,
                   pos, out, outClosed, sentinelObserved, lineCut>>
    /\ UNCHANGED <<promptVars, health, scoreVars, reqs, clientVars>>

\* The non-streaming upstream answers with a success status:
\* callHuggingFace passes `if (!response.ok)` and awaits response.json().
UpstreamReturns(status, body) ==
    /\ pc = "fetch"
    /\ provider = "huggingface"
    /\ responseOk(status)
    /\ upStatus' = status
    /\ upBody' = body
    /\ pc' = "reading"
    /\ UNCHANGED <<env, stages, reqBody, provider, prevProvider, fetches, upText,
                   resp, pos, out, outClosed, sentinelObserved, lineCut>>
    /\ UNCHANGED <<promptVars, health, scoreVars, reqs, clientVars>>

\* The transport delivers the next k bytes of the body response.json() is
\* reading; the handler stays suspended.
JsonChunk(k) ==
    /\ pc = "reading"
    /\ k \in 1..(Len(upBody) - pos)
    /\ pos' = pos + k
    /\ UNCHANGED <<env, pc, stages, reqBody, provider, prevProvider, fetches,
                   upStatus, upText, resp, upBody, out, outClosed,
                   sentinelObserved, lineCut>>
    /\ UNCHANGED <<promptVars, health, scoreVars, reqs, clientVars>>

\* response.json() settles on the bytes received: callHuggingFace takes
\* generated_text and returns new Response(generatedText), or the parse or
\* the property access throws into the catch block of POST.
JsonEnd ==
    /\ pc = "reading"
    /\ jsonResolves(upBody, pos)
    /\ LET result == hfGeneratedText(SubSeq(upBody, 1, pos))
       IN  IF result.ok
           THEN /\ resp' = streamResponse
                /\ out' = <<encode(result.text)>>
                /\ outClosed' = TRUE
                /\ pc' = "closed"
                /\ stages' = stages \o <<"Streaming", "Closed">>
           ELSE /\ resp' = POST_catch(<<"Unexpected response body">>)
                /\ pc' = "error"
                /\ stages' = Append(stages, "Error")
                /\ UNCHANGED <<out, outClosed>>
    /\ UNCHANGED <<env, reqBody, provider, prevProvider, fetches, upStatus, upText,
                   upBody, pos, sentinelObserved, lineCut>>
    /\ UNCHANGED <<promptVars, health, scoreVars, reqs, clientVars>>

\* A chunk boundary after the first p bytes falls inside a line: bytes of
\* one line lie on both sides of it.
cutsLine(body, p) == p < Len(body) /\ body[p] # LF /\ body[p + 1] # LF

\* The transport delivers the next k bytes of the upstream body as one
\* chunk; pipeThrough runs transform(chunk, controller) on it.
StreamChunk(k) ==
    /\ pc = "streaming"
    /\ k \in 1..(Len(upBody) - pos)
    /\ LET chunk == SubSeq(upBody, pos + 1, pos + k)
           r == transform(provider, chunk)
       IN  /\ out' = out \o r.emit
           /\ sentinelObserved' = (sentinelObserved \/ r.done)
    /\ pos' = pos + k
    /\ lineCut' = (lineCut \/ cutsLine(upBody, pos + k))
    /\ UNCHANGED <<env, pc, stages, reqBody, provider, prevProvider, fetches,
                   upStatus, upText, resp, upBody, outClosed>>
    /\ UNCHANGED <<promptVars, health, scoreVars, reqs, clientVars>>

\* The upstream body ends: the transform stream has no flush(), and the
\* readable side closes.
StreamEnd ==
    /\ pc = "streaming"
    /\ pos = Len(upBody)
    /\ outClosed' = TRUE
    /\ pc' = "closed"
    /\ stages' = Append(stages, "Closed")
    /\ UNCHANGED <<env, reqBody, provider, prevProvider, fetches, upStatus,
                   upText, resp, upBody, pos, out, sentinelObserved, lineCut>>
    /\ UNCHANGED <<promptVars, health, scoreVars, reqs, clientVars>>

Next ==
    \/ \E v \in CredVars, val \in EnvValues : SetEnv(v, val)
    \/ \E b \in Bodies : ReceiveRequest(b, NoConfig)
    \/ POST
    \/ FetchRejects
    \/ \E s \in UpstreamStatuses, t \in UpstreamErrorTexts : UpstreamFails(s, t)
    \/ \E s \in UpstreamStatuses, b \in UNION {GatewayBodies(f) : f \in StreamingProviders} :
           UpstreamStreams(s, b)
    \/ \E s \in UpstreamStatuses, b \in HuggingFaceBodies : UpstreamReturns(s, b)
    \/ \E k \in 1..Len(upBody) : JsonChunk(k)
    \/ JsonEnd
    \/ \E k \in 1..Len(upBody) : StreamChunk(k)
    \/ StreamEnd

Spec == Init /\ [][Next]_vars

(***************************************************************************)
(* The normalizer alone: a streaming adapter has returned its Response and *)
(* the upstream body, any sequence of up to MaxFrames lines of the format, *)
(* arrives cut into chunks at any byte.                                    *)
(***************************************************************************)
InitStream ==
    \E fmt \in StreamingProviders :
        /\ env = [v \in CredVars |-> IF v = KeyVar(fmt) THEN "key" ELSE undefined]
        /\ pc = "streaming"
        /\ stages = <<"Validating", "ResolvingProvider", "BuildingPrompt",
                       "Dispatching", "Streaming">>
        /\ reqBody = [json |-> "object",
                       messages |-> [type |-> "array", items |-> <<>>]]
        /\ provider = fmt
        /\ prevProvider = null
        /\ fetches = <<[provider |-> fmt, key |-> "key"]>>
        /\ upStatus = 200
        /\ upText = ""
        /\ resp = streamResponse
        /\ upBody \in StreamBodies(fmt)
        /\ pos = 0
        /\ out = <<>>
        /\ outClosed = FALSE
        /\ sentinelObserved = FALSE
        /\ lineCut = FALSE
        /\ config = NoConfig
        /\ systemPrompt = assigned(getSystemPrompt(NoConfig))
        /\ upRequest = adapterRequest(fmt, <<>>, systemPrompt.prompt)
        /\ health = NoHealth
        /\ InitClient /\ InitScorecard /\ reqs = <<>>

NextStream ==
    \/ \E k \in 1..Len(upBody) : StreamChunk(k)
    \/ StreamEnd

SpecStream == InitStream /\ [][NextStream]_vars

(***************************************************************************)
(* The dispatcher on one request: request.json() is pending, the           *)
(* environment is fixed, the body carries a conversation of up to MaxChat  *)
(* messages of any role and a configuration getSystemPrompt accepts or     *)
(* throws on.                                                              *)
(***************************************************************************)
\* Environments with the credential of one provider, and with none.
PostEnvs ==
    {[v \in CredVars |-> IF v = KeyVar(p) THEN "key" ELSE undefined] : p \in Providers}
        \cup {[v \in CredVars |-> undefined]}

PostConfigs ==
    { NoConfig,
      [jobDescription |-> [type |-> "string", chars |-> <<"d", "e", "v">>],
       interviewTypes |-> [type |-> "array", items |-> <<"hr", "coding">>],
       difficulty |-> "advanced", duration |-> "45"],
      [NoConfig EXCEPT !.interviewTypes = [type |-> "string", items |-> <<>>]],
      [NoConfig EXCEPT !.jobDescription = [type |-> "number", chars |-> <<>>]] }

PostBodies == ChatBodies \cup Bodies

\* The upstream body fails while it is piped through the transform: the
\* response stream is errored, nothing more is enqueued.
StreamAborts ==
    /\ pc = "streaming"
    /\ pc' = "error"
    /\ stages' = Append(stages, "Error")
    /\ UNCHANGED <<env, reqBody, provider, prevProvider, fetches, upStatus,
                   upText, resp>>
    /\ UNCHANGED <<streamVars, promptVars, health, scoreVars, reqs, clientVars>>

InitPost ==
    /\ env \in PostEnvs
    /\ pc = "json"
    /\ stages = <<"Validating">>
    /\ reqBody \in PostBodies
    /\ provider = null
    /\ prevProvider = null
    /\ fetches = <<>>
    /\ upStatus = 0
    /\ upText = ""
    /\ resp = NoResponse
    /\ upBody = <<>>
    /\ pos = 0
    /\ out = <<>>
    /\ outClosed = FALSE
    /\ sentinelObserved = FALSE
    /\ lineCut = FALSE
    /\ config \in PostConfigs
    /\ systemPrompt = NoPrompt
    /\ upRequest = NoRequest
    /\ health = NoHealth
    /\ InitClient /\ InitScorecard /\ reqs = <<>>

NextPost ==
    \/ POST
    \/ FetchRejects
    \/ \E s \in UpstreamStatuses, t \in UpstreamErrorTexts : UpstreamFails(s, t)
    \/ \E s \in UpstreamStatuses, b \in UNION {GatewayBodies(f) : f \in StreamingProviders} :
           UpstreamStreams(s, b)
    \/ \E s \in UpstreamStatuses, b \in HuggingFaceBodies : UpstreamReturns(s, b)
    \/ \E k \in 1..Len(upBody) : JsonChunk(k)
    \/ JsonEnd
    \/ \E k \in 1..Len(upBody) : StreamChunk(k)
    \/ StreamEnd
    \/ StreamAborts

SpecPost == InitPost /\ [][NextPost]_vars

(***************************************************************************)
(* getSystemPrompt alone: any configuration of Configs, and one call.      *)
(***************************************************************************)
InitPrompt ==
    /\ env \in [CredVars -> {undefined}]
    /\ pc = "idle"
    /\ stages = <<>>
    /\ reqBody = NoBody
    /\ provider = null
    /\ prevProvider = null
    /\ fetches = <<>>
    /\ upStatus = 0
    /\ upText = ""
    /\ resp = NoResponse
    /\ upBody = <<>>
    /\ pos = 0
    /\ out = <<>>
    /\ outClosed = FALSE
    /\ sentinelObserved = FALSE
    /\ lineCut = FALSE
    /\ config \in Configs
    /\ systemPrompt = NoPrompt
    /\ upRequest = NoRequest
    /\ health = NoHealth
    /\ InitClient /\ InitScorecard /\ reqs = <<>>

\* const systemPrompt = getSystemPrompt(jobDescription, interviewTypes,
\*                                      difficulty, duration);
BuildPrompt ==
    /\ systemPrompt = NoPrompt
    /\ systemPrompt' = assigned(getSystemPrompt(config))
    /\ UNCHANGED <<env, pc, stages, reqBody, provider, prevProvider, fetches,
                   upStatus, upText, resp, streamVars, config, upRequest,
                   health, scoreVars, reqs, clientVars>>

NextPrompt == BuildPrompt

SpecPrompt == InitPrompt /\ [][NextPrompt]_vars

(***************************************************************************)
(* The health probe: the deployment changes the environment, GET reports.  *)
(***************************************************************************)
\* export async function GET()
GET ==
    /\ health' = GET_response(env)
    /\ UNCHANGED <<gatewayVars, scoreVars, reqs, clientVars>>

NextHealth ==
    \/ \E v \in CredVars, val \in EnvValues : SetEnv(v, val)
    \/ GET

SpecHealth == Init /\ [][NextHealth]_vars

(***************************************************************************)
(* The chat hook: calls of sendMessage, each with its response.            *)
(***************************************************************************)
\* The body of sendMessage(userMessage) up to its await of fetch(), run
\* with the messages and isLoading the callback cl captured.  State setters
\* of a component that is no longer mounted (cl.live false) do nothing; the
\* store is global.
send(cl, userMessage) ==
    IF trim(userMessage) = <<>> \/ cl.isLoading
    THEN UNCHANGED <<storeMessages, isLoading, error, calls>>
    ELSE LET userMsg == [role |-> "user", content |-> userMessage]
         IN  /\ isLoading' = IF cl.live THEN TRUE ELSE isLoading
             /\ error' = IF cl.live THEN null ELSE error
             /\ storeMessages' = addMessage(storeMessages, userMsg)
             /\ calls' = Append(calls,
                                [pc |-> "fetching",
                                 userMsg |-> userMsg,
                                 apiMessages |-> Append(cl.messages, userMsg),
                                 assistantContent |-> <<>>,
                                 pending |-> <<>>,
                                 body |-> <<>>,
                                 live |-> cl.live])

\* What the callbacks of the render of the current store and state capture.
rendered == [messages |-> storeMessages, isLoading |-> isLoading, live |-> TRUE]

\* React renders InterviewPage: useChat runs again and useCallback builds
\* the sendMessage that captures the current messages and isLoading; the
\* effect that depends on startInterview and messages.length runs and calls
\* startInterview() when nothing was started and there is no message.
Render ==
    /\ currentStep = "interviewing"
    /\ closure # rendered
    /\ (~hasStarted /\ Len(storeMessages) = 0 /\ ~isLoading) => Len(calls) < MaxSends
    /\ closure' = rendered
    /\ IF ~hasStarted /\ Len(storeMessages) = 0
       THEN /\ hasStarted' = TRUE
            /\ send(rendered, Opening)
       ELSE UNCHANGED <<hasStarted, storeMessages, isLoading, error, calls>>
    /\ UNCHANGED <<gatewayVars, health, scoreVars, reqs, isSpeaking,
                   currentStep, timer, slots>>

\* sendMessage(userMessage), up to its await of fetch().
sendMessage(userMessage) ==
    /\ currentStep = "interviewing"
    /\ Len(calls) < MaxSends
    /\ ~(trim(userMessage) = <<>> \/ closure.isLoading)
    /\ send(closure, userMessage)
    /\ UNCHANGED <<gatewayVars, health, scoreVars, reqs, isSpeaking, closure,
                   uiVars, slots>>

\* The component unmounts: the state setters of its calls and of its timer
\* do nothing from now on.
unmounted(cs) == [i \in 1..Len(cs) |-> [cs[i] EXCEPT !.live = FALSE]]

\* handleStartInterview of the page: clearMessages(), and InterviewPage
\* mounts with a new useChat and a new hasStartedRef; its first render runs
\* the effect, which calls startInterview().
handleStartInterview ==
    /\ currentStep = "setup"
    /\ Len(calls) < MaxSends
    /\ currentStep' = "interviewing"
    /\ hasStarted' = TRUE
    /\ closure' = [messages |-> <<>>, isLoading |-> FALSE, live |-> TRUE]
    /\ LET userMsg == [role |-> "user", content |-> Opening]
       IN  /\ storeMessages' = <<userMsg>>
           /\ isLoading' = TRUE
           /\ error' = null
           /\ slots' = NoSlots
           /\ calls' = Append(calls,
                              [pc |-> "fetching",
                               userMsg |-> userMsg,
                               apiMessages |-> <<userMsg>>,
                               assistantContent |-> <<>>,
                               pending |-> <<>>,
                               body |-> <<>>,
                               live |-> TRUE])
    /\ UNCHANGED <<gatewayVars, health, scoreVars, reqs, isSpeaking, timer>>

\* handleBackToSetup: clearMessages() and setCurrentStep("setup"), which
\* unmounts InterviewPage.  Nothing aborts the fetch of a call in progress
\* or clears the timer.
handleBackToSetup ==
    /\ currentStep = "interviewing"
    /\ storeMessages' = <<>>
    /\ currentStep' = "setup"
    /\ slots' = NoSlots
    /\ calls' = unmounted(calls)
    /\ timer' = [timer EXCEPT !.live = FALSE]
    /\ UNCHANGED <<gatewayVars, health, scoreVars, reqs, isLoading, error,
                   isSpeaking, closure, hasStarted>>

\* handleRestartInterview: clearMessages(), hasStartedRef.current = false,
\* and a timer whose callback calls the startInterview this handler
\* captured at the last render.
handleRestartInterview ==
    /\ currentStep = "interviewing"
    /\ ~timer.set
    /\ storeMessages' = <<>>
    /\ hasStarted' = FALSE
    /\ timer' = [set |-> TRUE, messages |-> closure.messages,
                 isLoading |-> closure.isLoading, live |-> TRUE]
    /\ slots' = NoSlots
    /\ UNCHANGED <<gatewayVars, health, scoreVars, reqs, isLoading, error,
                   isSpeaking, closure, currentStep, calls>>

\* The timer of handleRestartInterview fires.
TimerFires ==
    /\ timer.set
    /\ ~timer.isLoading => Len(calls) < MaxSends
    /\ timer' = NoTimer
    /\ hasStarted' = IF timer.live THEN TRUE ELSE hasStarted
    /\ send(timer, Opening)
    /\ UNCHANGED <<gatewayVars, health, scoreVars, reqs, isSpeaking, closure,
                   currentStep, slots>>

\* The catch block and the finally block of call i.
catch(i, e) ==
    /\ error' = IF calls[i].live THEN e ELSE error
    /\ isSpeaking' = FALSE
    /\ storeMessages' = removeEmptyAssistant(storeMessages)
    /\ isLoading' = IF calls[i].live THEN FALSE ELSE isLoading
    /\ calls' = [calls EXCEPT ![i].pc = "failed"]
    /\ UNCHANGED <<gatewayVars, health, scoreVars, reqs, closure, uiVars>>

\* fetch() rejects (status 0) or the response is not ok: the throw of
\* `if (!response.ok)`.
FetchFailsStep(i, status) ==
    /\ i \in 1..Len(calls)
    /\ calls[i].pc = "fetching"
    /\ ~responseOk(status)
    /\ catch(i, clientError(status))

FetchFails(i, status) == FetchFailsStep(i, status) /\ UNCHANGED slots

\* The response is ok: setIsSpeaking(true) and the temporary assistant
\* message.
StreamOpensStep(i, status, body) ==
    /\ i \in 1..Len(calls)
    /\ calls[i].pc = "fetching"
    /\ responseOk(status)
    /\ isSpeaking' = TRUE
    /\ storeMessages' = addMessage(storeMessages,
                                   [role |-> "assistant", content |-> <<>>])
    /\ calls' = [calls EXCEPT ![i].pc = "reading", ![i].body = body]
    /\ UNCHANGED <<gatewayVars, health, scoreVars, reqs, isLoading, error,
                   closure, uiVars>>

StreamOpens(i, status, body) == StreamOpensStep(i, status, body) /\ UNCHANGED slots

\* reader.read() resolves with a chunk: one turn of the while loop.
ReadChunk(i) ==
    /\ i \in 1..Len(calls)
    /\ calls[i].pc = "reading"
    /\ calls[i].body # <<>>
    /\ LET d == decodeStream(calls[i].pending, Head(calls[i].body))
           content == calls[i].assistantContent \o d.text
       IN  /\ storeMessages' = updateLast(storeMessages, content)
           /\ calls' = [calls EXCEPT ![i].assistantContent = content,
                                     ![i].pending = d.pending,
                                     ![i].body = Tail(@)]
    /\ UNCHANGED <<gatewayVars, health, scoreVars, reqs, isLoading, error,
                   isSpeaking, closure, uiVars, slots>>

\* reader.read() rejects: the stream failed.
ReadFailsStep(i) ==
    /\ i \in 1..Len(calls)
    /\ calls[i].pc = "reading"
    /\ catch(i, clientError(0))

ReadFails(i) == ReadFailsStep(i) /\ UNCHANGED slots

\* reader.read() resolves with done: setIsSpeaking(false) and the finally
\* block.
ReadDone(i) ==
    /\ i \in 1..Len(calls)
    /\ calls[i].pc = "reading"
    /\ calls[i].body = <<>>
    /\ isSpeaking' = FALSE
    /\ isLoading' = IF calls[i].live THEN FALSE ELSE isLoading
    /\ calls' = [calls EXCEPT ![i].pc = "done"]
    /\ UNCHANGED <<gatewayVars, health, scoreVars, reqs, storeMessages, error,
                   closure, uiVars, slots>>

NextChat ==
    \/ Render
    \/ \E u \in UserInputs : sendMessage(u)
    \/ \E i \in 1..MaxSends, s \in ClientStatuses \cup {0} :
           FetchFails(i, s)
    \/ \E i \in 1..MaxSends, s \in ClientStatuses, b \in ClientStreams :
           StreamOpens(i, s, b)
    \/ \E i \in 1..MaxSends : ReadChunk(i)
    \/ \E i \in 1..MaxSends : ReadFails(i)
    \/ \E i \in 1..MaxSends : ReadDone(i)

SpecChat == Init /\ [][NextChat]_vars

(***************************************************************************)
(* The page: the setup form, the interview screen and its buttons, and the *)
(* calls of the chat hook.                                                 *)
(***************************************************************************)
\* An exchange that has completed: the opening message and the reply.
FirstExchange ==
    <<[role |-> "user", content |-> Opening],
      [role |-> "assistant", content |-> <<"a">>]>>

\* The page shows the setup form, or the interview screen after the first
\* exchange has completed.
InitUI ==
    /\ InitGateway
    /\ health = NoHealth
    /\ InitScorecard
    /\ reqs = <<>>
    /\ isLoading = FALSE
    /\ error = null
    /\ isSpeaking = FALSE
    /\ calls = <<>>
    /\ timer = NoTimer
    /\ slots = NoSlots
    /\ \/ /\ currentStep = "setup"
          /\ storeMessages = <<>>
          /\ closure = [messages |-> <<>>, isLoading |-> FALSE, live |-> TRUE]
          /\ hasStarted = FALSE
       \/ /\ currentStep = "interviewing"
          /\ storeMessages = FirstExchange
          /\ closure = [messages |-> FirstExchange, isLoading |-> FALSE,
                        live |-> TRUE]
          /\ hasStarted = TRUE

\* The slots after a step that may have removed the last message of the
\* store.
popped == [j \in 1..MaxSends |-> IF slots[j] > Len(storeMessages') THEN 0 ELSE slots[j]]

\* The user submits the input: the event reaches the sendMessage of the
\* latest render.
onSubmit(userMessage) ==
    /\ closure = rendered
    /\ sendMessage(userMessage)

\* Events and timers are handled when React has committed the render of
\* the updates before them.
NextUI ==
    \/ handleStartInterview
    \/ closure = rendered /\ handleBackToSetup
    \/ closure = rendered /\ handleRestartInterview
    \/ closure = rendered /\ TimerFires
    \/ Render
    \/ \E u \in UserInputs : onSubmit(u)
    \/ \E i \in 1..MaxSends, s \in ClientStatuses \cup {0} :
           FetchFailsStep(i, s) /\ slots' = popped
    \/ \E i \in 1..MaxSends, s \in ClientStatuses, b \in ClientStreams :
           StreamOpensStep(i, s, b) /\ slots' = [slots EXCEPT ![i] = Len(storeMessages')]
    \/ \E i \in 1..MaxSends : ReadChunk(i)
    \/ \E i \in 1..MaxSends : ReadFailsStep(i) /\ slots' = popped
    \/ \E i \in 1..MaxSends : ReadDone(i)

SpecUI == InitUI /\ [][NextUI]_vars

(***************************************************************************)
(* The scorecard route on one request, next to the chat route on a request *)
(* with the same body in the same environment.                             *)
(***************************************************************************)
\* The catch block of the scorecard POST.
scorecardCatch(message) == jsonResponse(message, 500)

\* POST of the scorecard route, up to the adapter's await of fetch().
scorecardPOST ==
    /\ scPc = "json"
    /\ IF scBody.json = "invalid"
       THEN \* request.json() rejects
            /\ scResp' = scorecardCatch(<<"Unexpected token in JSON">>)
            /\ scPc' = "error"
            /\ UNCHANGED <<scProvider, scFetches>>
       ELSE IF scBody.json = "null"
       THEN \* destructuring null throws a TypeError
            /\ scResp' = scorecardCatch(<<"Cannot destructure property 'messages'">>)
            /\ scPc' = "error"
            /\ UNCHANGED <<scProvider, scFetches>>
       ELSE IF scorecardInvalid(scBody.messages)
       THEN /\ scResp' = jsonResponse(MessagesMustNotBeEmpty, 400)
            /\ scPc' = "error"
            /\ UNCHANGED <<scProvider, scFetches>>
       ELSE /\ scProvider' = scorecardDetectProvider(env)
            /\ IF scProvider' = null
               THEN /\ scResp' = jsonResponse(ScorecardNoApiKeys, 500)
                    /\ scPc' = "error"
                    /\ UNCHANGED scFetches
               ELSE /\ scFetches' = Append(scFetches,
                                           [provider |-> scProvider',
                                            key |-> env[KeyVar(scProvider')]])
                    /\ scPc' = "fetch"
                    /\ UNCHANGED scResp
    /\ UNCHANGED <<scBody, scContent, scorecard>>
    /\ UNCHANGED <<gatewayVars, health, reqs, clientVars>>

\* fetch() rejects: the catch block.
scorecardFetchRejects ==
    /\ scPc = "fetch"
    /\ scResp' = scorecardCatch(<<"fetch failed">>)
    /\ scPc' = "error"
    /\ UNCHANGED <<scBody, scProvider, scFetches, scContent, scorecard>>
    /\ UNCHANGED <<gatewayVars, health, reqs, clientVars>>

\* The upstream answers with a failure status: the throw of
\* `if (!response.ok)` reaches the catch block.
scorecardUpstreamFails(status, text) ==
    /\ scPc = "fetch"
    /\ ~responseOk(status)
    /\ scResp' = scorecardCatch(upstreamError(scProvider, status, text))
    /\ scPc' = "error"
    /\ UNCHANGED <<scBody, scProvider, scFetches, scContent, scorecard>>
    /\ UNCHANGED <<gatewayVars, health, reqs, clientVars>>

\* The upstream answers with a success status and the reply `content`:
\* the adapter throws when there is none and returns
\* parseScorecard(content) otherwise, which POST sends as JSON.
scorecardUpstreamReturns(status, content) ==
    /\ scPc = "fetch"
    /\ responseOk(status)
    /\ scContent' = content
    /\ IF content = <<>>
       THEN /\ scResp' = scorecardCatch(NoContent(scProvider))
            /\ scPc' = "error"
            /\ UNCHANGED scorecard
       ELSE /\ scorecard' = parseScorecard(content)
            /\ scResp' = [status |-> 200, error |-> <<>>]
            /\ scPc' = "done"
    /\ UNCHANGED <<scBody, scProvider, scFetches>>
    /\ UNCHANGED <<gatewayVars, health, reqs, clientVars>>

\* The credential variables set or unset, in every combination.
ScorecardEnvs == [CredVars -> {undefined, "key"}]

\* Replies of the model: none, a JSON object, prose.
ScorecardReplies ==
    { <<>>,
      <<[t |-> "object", ta |-> Num(7), cs |-> Num(7), overall |-> Num(7)]>>,
      <<Piece("prose")>> }

\* request.json() is pending in both routes, on the same body.
InitScore ==
    /\ env \in ScorecardEnvs
    /\ pc = "json"
    /\ stages = <<"Validating">>
    /\ reqBody \in Bodies
    /\ provider = null
    /\ prevProvider = null
    /\ fetches = <<>>
    /\ upStatus = 0
    /\ upText = ""
    /\ resp = NoResponse
    /\ upBody = <<>>
    /\ pos = 0
    /\ out = <<>>
    /\ outClosed = FALSE
    /\ sentinelObserved = FALSE
    /\ lineCut = FALSE
    /\ config = NoConfig
    /\ systemPrompt = NoPrompt
    /\ upRequest = NoRequest
    /\ health = NoHealth
    /\ InitClient
    /\ reqs = <<>>
    /\ scPc = "json"
    /\ scBody = reqBody
    /\ scProvider = null
    /\ scFetches = <<>>
    /\ scResp = NoResponse
    /\ scContent = <<>>
    /\ scorecard = NoScorecard

NextScore ==
    \/ POST
    \/ scorecardPOST
    \/ scorecardFetchRejects
    \/ \E s \in UpstreamStatuses, t \in UpstreamErrorTexts :
           scorecardUpstreamFails(s, t)
    \/ \E s \in UpstreamStatuses, c \in ScorecardReplies :
           scorecardUpstreamReturns(s, c)

SpecScore == InitScore /\ [][NextScore]_vars

(***************************************************************************)
(* parseScorecard alone, on every reply of ScoreContents.                  *)
(***************************************************************************)
InitParse ==
    /\ InitGateway
    /\ health = NoHealth
    /\ InitClient
    /\ reqs = <<>>
    /\ scPc = "parse"
    /\ scBody = NoBody
    /\ scProvider = "openai"
    /\ scFetches = <<>>
    /\ scResp = NoResponse
    /\ scContent \in ScoreContents
    /\ scorecard = NoScorecard

\* return parseScorecard(content)
ParseScorecard ==
    /\ scPc = "parse"
    /\ scorecard' = parseScorecard(scContent)
    /\ scPc' = "done"
    /\ UNCHANGED <<scBody, scProvider, scFetches, scResp, scContent>>
    /\ UNCHANGED <<gatewayVars, health, reqs, clientVars>>

NextParse == ParseScorecard

SpecParse == InitParse /\ [][NextParse]_vars

(***************************************************************************)
(* Concurrent requests to POST /chat in one process: each call of POST has *)
(* its own locals, and each call of a streaming adapter its own decoder,   *)
(* encoder and TransformStream.                                            *)
(***************************************************************************)
\* The messages and the configuration of a request.
PairInputs ==
    { [messages |-> <<[role |-> "user", content |-> "hi"]>>,
       config |-> NoConfig],
      [messages |-> <<[role |-> "user", content |-> "hi"],
                      [role |-> "assistant", content |-> "ok"]>>,
       config |-> [jobDescription |-> [type |-> "string", chars |-> <<"d", "e", "v">>],
                   interviewTypes |-> [type |-> "array", items |-> <<"hr", "coding">>],
                   difficulty |-> "advanced", duration |-> "45"]] }

\* A request whose request.json() is pending.
received(in) ==
    [pc |-> "json", messages |-> in.messages, config |-> in.config,
     provider |-> null, systemPrompt |-> NoPrompt, upRequest |-> NoRequest,
     upBody |-> <<>>, pos |-> 0, out |-> <<>>]

\* The upstream body of a request: one frame of the provider's format.
PairBodies(fmt) ==
    CASE fmt = "openai" -> { bodyOf(<< <<"D", "{", "o", "a", "}">> >>) }
      [] fmt = "anthropic" -> { bodyOf(<< <<"D", "{", "t", "a", "}">> >>) }
      [] fmt = "ollama" -> { bodyOf(<< <<"{", "c", "a", "}">> >>) }

promptOf_shared(rs, r) == assigned(getSystemPrompt(rs[1].config))

\* const systemPrompt = getSystemPrompt(jobDescription, interviewTypes,
\* difficulty, duration), on the fields of the request's own body.
promptOf(rs, r) == assigned(getSystemPrompt(rs[r].config))

InitPair ==
    /\ env \in {e \in PostEnvs : detectProvider(e) \in StreamingProviders}
    /\ pc = "idle"
    /\ stages = <<>>
    /\ reqBody = NoBody
    /\ provider = null
    /\ prevProvider = null
    /\ fetches = <<>>
    /\ upStatus = 0
    /\ upText = ""
    /\ resp = NoResponse
    /\ upBody = <<>>
    /\ pos = 0
    /\ out = <<>>
    /\ outClosed = FALSE
    /\ sentinelObserved = FALSE
    /\ lineCut = FALSE
    /\ config = NoConfig
    /\ systemPrompt = NoPrompt
    /\ upRequest = NoRequest
    /\ health = NoHealth
    /\ InitClient
    /\ InitScorecard
    /\ reqs \in [1..MaxRequests -> {received(in) : in \in PairInputs}]

\* POST on request r, up to the adapter's await of fetch().
PairPOST(r) ==
    /\ reqs[r].pc = "json"
    /\ LET p == detectProvider(env)
           sp == promptOf(reqs, r)
       IN  reqs' = [reqs EXCEPT
                       ![r].provider = p,
                       ![r].systemPrompt = sp,
                       ![r].upRequest = adapterRequest(p, reqs[r].messages, sp.prompt),
                       ![r].pc = "fetch"]
    /\ UNCHANGED <<gatewayVars, health, scoreVars, clientVars>>

\* The upstream of request r answers: the adapter builds its decoder and
\* TransformStream and returns the piped Response.
PairUpstreamStreams(r, body) ==
    /\ reqs[r].pc = "fetch"
    /\ body \in PairBodies(reqs[r].provider)
    /\ reqs' = [reqs EXCEPT ![r].upBody = body, ![r].pc = "streaming"]
    /\ UNCHANGED <<gatewayVars, health, scoreVars, clientVars>>

\* The next k bytes of the upstream body of request r arrive as one chunk:
\* its transform(chunk, controller) runs.
PairChunk(r, k) ==
    /\ reqs[r].pc = "streaming"
    /\ k \in 1..(Len(reqs[r].upBody) - reqs[r].pos)
    /\ LET chunk == SubSeq(reqs[r].upBody, reqs[r].pos + 1, reqs[r].pos + k)
       IN  reqs' = [reqs EXCEPT
                       ![r].out = @ \o transform(reqs[r].provider, chunk).emit,
                       ![r].pos = @ + k]
    /\ UNCHANGED <<gatewayVars, health, scoreVars, clientVars>>

\* The upstream body of request r ends.
PairEnd(r) ==
    /\ reqs[r].pc = "streaming"
    /\ reqs[r].pos = Len(reqs[r].upBody)
    /\ reqs' = [reqs EXCEPT ![r].pc = "closed"]
    /\ UNCHANGED <<gatewayVars, health, scoreVars, clientVars>>

NextPair ==
    \/ \E r \in 1..MaxRequests : PairPOST(r)
    \/ \E r \in 1..MaxRequests,
          b \in UNION {PairBodies(f) : f \in StreamingProviders} :
           PairUpstreamStreams(r, b)
    \/ \E r \in 1..MaxRequests : \E k \in 1..Len(reqs[r].upBody) : PairChunk(r, k)
    \/ \E r \in 1..MaxRequests : PairEnd(r)

SpecPair == InitPair /\ [][NextPair]_vars

(***************************************************************************)
(* Properties.                                                             *)
(***************************************************************************)
Range(q) == {q[i] : i \in 1..Len(q)}

\* The precedence of section 3: openai > anthropic > ollama > huggingface.
Precedence == <<"openai", "anthropic", "ollama", "huggingface">>

Rank(p) == CHOOSE i \in 1..Len(Precedence) : Precedence[i] = p

\* The credential of provider p is present in environment e.
Present(e, p) == e[KeyVar(p)] \notin {undefined, ""}

\* The provider the precedence selects in environment e.
Selected(e) ==
    IF \A p \in Providers : ~Present(e, p) THEN null
    ELSE CHOOSE p \in Providers :
             /\ Present(e, p)
             /\ \A q \in Providers : Present(e, q) => Rank(p) <= Rank(q)

\* C1: for every combination of present and absent credentials,
\* detectProvider returns one identity, the present one that comes first in
\* openai > anthropic > ollama > huggingface, and returns null exactly when
\* no credential is present.
C1_Precedence ==
    LET r == detectProvider(env)
    IN  /\ r \in Providers \cup {null}
        /\ (r = null) <=> (\A p \in Providers : ~Present(env, p))
        /\ r # null =>
              /\ Present(env, r)
              /\ \A q \in Providers : Present(env, q) => Rank(r) <= Rank(q)

\* A request resolved ollama while the Hugging Face credential is present too.
C1_Witness ==
    /\ pc = "fetch"
    /\ provider = "ollama"
    /\ Present(env, "ollama") /\ Present(env, "huggingface")
    /\ ~Present(env, "openai") /\ ~Present(env, "anthropic")

\* The step in which the request in progress resolves its provider.
Resolves ==
    /\ "ResolvingProvider" \notin Range(stages)
    /\ "ResolvingProvider" \in Range(stages')

\* C2: the provider a request uses is the precedence applied to the
\* credentials present when the request is resolved, whatever earlier
\* requests resolved; the upstream call goes to that provider.
C2_ResolvedPerRequest ==
    [][Resolves =>
          /\ provider' = Selected(env)
          /\ fetches' = IF Selected(env) = null THEN <<>>
                        ELSE <<[provider |-> Selected(env),
                                key |-> env[KeyVar(Selected(env))]]>>]_vars

\* A request resolved a provider other than the one the request before it
\* resolved: a credential change took effect.
C2_Witness ==
    /\ pc = "fetch"
    /\ prevProvider # null
    /\ provider # null
    /\ provider # prevProvider

\* The body of the request parsed to a value whose messages field is
\* missing or is no array.
BadMessages ==
    /\ reqBody.json \in {"scalar", "object"}
    /\ reqBody.messages.type # "array"

\* POST has run on the request in progress.
Handled == pc \notin {"idle", "json"}

\* C3: a body whose messages field is missing or is not a sequence gets
\* status 400 and no upstream call, whatever credentials are configured.
C3_BadMessages400 ==
    (Handled /\ BadMessages) => (resp.status = 400 /\ fetches = <<>>)

\* A request whose messages is a string was refused while a credential is
\* configured.
C3_Witness ==
    /\ Handled
    /\ reqBody.messages.type = "string"
    /\ resp.status = 400
    /\ Selected(env) # null

\* POST runs on a body with a messages array while no credential is present.
HandlesWithoutCredential ==
    /\ pc = "json" /\ pc' # "json"
    /\ reqBody.json = "object"
    /\ reqBody.messages.type = "array"
    /\ \A p \in Providers : ~Present(env, p)

\* C4: a valid messages list with no credential configured gets status 500
\* with a message naming a credential variable, and no upstream call.
C4_NoCredential500 ==
    [][HandlesWithoutCredential =>
          /\ resp'.status = 500
          /\ Range(resp'.error) \cap CredVars # {}
          /\ fetches' = <<>>
          /\ pc' = "error"]_vars

\* A request with a messages array ended in the configuration error.
C4_Witness ==
    /\ pc = "error"
    /\ reqBody.json = "object"
    /\ reqBody.messages.type = "array"
    /\ "ResolvingProvider" \in Range(stages)
    /\ provider = null
    /\ resp.status = 500
    /\ fetches = <<>>

\* The upstream answered the request in progress with a non-success status.
UpstreamFailed == upStatus # 0 /\ upStatus \notin 200..299

\* C5: a non-success upstream status gives a 500 whose message holds the
\* upstream status code and body text; the request made one upstream call,
\* to the selected provider, and none to another.
C5_UpstreamFailure500 ==
    UpstreamFailed =>
        /\ resp.status = 500
        /\ ToString(upStatus) \in Range(resp.error)
        /\ upText \in Range(resp.error)
        /\ Len(fetches) = 1
        /\ fetches[1].provider = provider

\* The upstream refused with 429 while the credential of another provider
\* is present.
C5_Witness ==
    /\ upStatus = 429
    /\ upText = "rate limited"
    /\ resp.status = 500
    /\ \E q \in Providers : q # provider /\ Present(env, q)

(***************************************************************************)
(* Properties of the normalizer, stated on the upstream body as a whole:   *)
(* its lines, whatever the chunks they arrived in.                         *)
(***************************************************************************)
\* The lines of a body.
LinesOf(body) == nonBlank(split(body))

\* The bytes of the text a line carries when it is a well-formed frame of
\* the format with the format's text field (<<>> when it carries none).
FrameText(fmt, line) ==
    LET n == Len(line)
    IN  CASE fmt = "openai" ->
               IF n >= 4 /\ SubSeq(line, 1, 3) = <<"D", "{", "o">> /\ line[n] = "}"
               THEN SubSeq(line, 4, n - 1) ELSE <<>>
          [] fmt = "anthropic" ->
               IF n >= 4 /\ SubSeq(line, 1, 3) = <<"D", "{", "t">> /\ line[n] = "}"
               THEN SubSeq(line, 4, n - 1) ELSE <<>>
          [] fmt = "ollama" ->
               IF n >= 3 /\ SubSeq(line, 1, 2) = <<"{", "c">> /\ line[n] = "}"
               THEN SubSeq(line, 3, n - 1) ELSE <<>>

\* The texts of the lines, in order, those that carry none left out.
Texts(fmt, lines) ==
    SelectSeq([i \in 1..Len(lines) |-> FrameText(fmt, lines[i])],
              LAMBDA t : t # <<>>)

IsSentinel(line) == line = <<"D", "!">>

NoSentinel(body) == \A i \in 1..Len(LinesOf(body)) : ~IsSentinel(LinesOf(body)[i])

\* The lines before the first sentinel line (all of them when there is none).
BeforeSentinel(lines) ==
    IF \A i \in 1..Len(lines) : ~IsSentinel(lines[i]) THEN lines
    ELSE LET i == CHOOSE k \in 1..Len(lines) :
                     IsSentinel(lines[k]) /\ \A j \in 1..(k - 1) : ~IsSentinel(lines[j])
         IN  SubSeq(lines, 1, i - 1)

RECURSIVE Concat(_)
Concat(qs) == IF qs = <<>> THEN <<>> ELSE Head(qs) \o Concat(Tail(qs))

RECURSIVE IsSubseq(_, _)
IsSubseq(q, r) ==
    IF q = <<>> THEN TRUE
    ELSE IF r = <<>> THEN FALSE
    ELSE IF Head(q) = Head(r) THEN IsSubseq(Tail(q), Tail(r))
    ELSE IsSubseq(q, Tail(r))

\* C6: in the OpenAI format nothing a frame after the [DONE] sentinel
\* carries is emitted: what has been emitted is, in order, text of frames
\* that precede the sentinel.
C6_NothingAfterSentinel ==
    provider = "openai" =>
        IsSubseq(out, Texts("openai", BeforeSentinel(LinesOf(upBody))))

\* C7: the output stream is closed exactly when the first of the two has
\* happened: the upstream body ended, or the sentinel was observed.
C7_ClosedAtFirstOfEndOrSentinel ==
    pc \in {"streaming", "closed"} =>
        (outClosed <=> (pc = "closed" \/ sentinelObserved))

\* C8: with frames that do not parse among its lines, a body that arrives
\* in chunks of whole lines (and, in the OpenAI format, holds no sentinel)
\* yields the texts of its well-formed frames, all of them, in order, on a
\* stream that ends without error.
C8_MalformedFramesSkipped ==
    (pc = "closed" /\ provider \in StreamingProviders
        /\ ~lineCut /\ NoSentinel(upBody)) =>
        /\ out = Texts(provider, LinesOf(upBody))
        /\ resp.status = 200
        /\ outClosed

\* A body whose first line is truncated JSON and whose second is a
\* well-formed frame arrived whole, and the text of the second came out.
C8_Witness ==
    /\ pc = "closed"
    /\ provider = "ollama"
    /\ ~lineCut
    /\ upBody = bodyOf(<< <<"{", "c", "b">>, <<"{", "c", "a", "}">> >>)
    /\ out = << <<"a">> >>

\* C9: however the body is cut into chunks, the chunks emitted, joined in
\* order, are the texts of all frames of the body (bodies with a sentinel
\* apart).
C9_ChunkingRoundTrip ==
    (pc = "closed" /\ provider \in StreamingProviders /\ NoSentinel(upBody)) =>
        Concat(out) = Concat(Texts(provider, LinesOf(upBody)))

\* C10: in the Anthropic format what is emitted is, in order, non-empty
\* delta.text of content_block_delta events of the body and nothing else.
C10_OnlyContentBlockDelta ==
    provider = "anthropic" =>
        /\ IsSubseq(out, Texts("anthropic", LinesOf(upBody)))
        /\ \A i \in 1..Len(out) : out[i] # <<>>

\* A body with a message_delta event carrying delta.text, a
\* content_block_delta without delta.text and a content_block_delta with
\* text "a" has been streamed to its end, and only "a" came out.
C10_Witness ==
    /\ pc = "closed"
    /\ provider = "anthropic"
    /\ upBody = bodyOf(<< <<"D", "{", "m", "b", "}">>,
                          <<"D", "{", "j", "b", "}">>,
                          <<"D", "{", "t", "a", "}">> >>)
    /\ out = << <<"a">> >>


(***************************************************************************)
(* The non-streaming backend.                                              *)
(***************************************************************************)
\* The body holds an object with a generated_text.
HasGeneratedText(body) ==
    /\ \E i \in 1..Len(body) : body[i] = "g"
    /\ \E i \in 1..Len(body) : body[i] = "}"

\* The bytes of the generated text in a body of the non-streaming backend:
\* what lies between the generated_text key and the brace that closes its
\* object.
GeneratedText(body) ==
    LET g == CHOOSE i \in 1..Len(body) : body[i] = "g"
        e == CHOOSE i \in 1..Len(body) : body[i] = "}"
    IN  SubSeq(body, g + 1, e - 1)

\* C11: when the huggingface adapter succeeds, the response body is one
\* write that carries the complete generated text (of the object, or of the
\* first element of the array), and nothing is written before the whole
\* upstream body has been received.
C11_OneWriteOfWholeText ==
    provider = "huggingface" =>
        /\ out # <<>> => /\ pos = Len(upBody)
                         /\ HasGeneratedText(upBody)
                         /\ out = <<GeneratedText(upBody)>>
        /\ pc = "closed" => Len(out) = 1 /\ outClosed

C11_Witness ==
    /\ provider = "huggingface"
    /\ pc = "closed"
    /\ upBody = <<"[", "{", "g", "a", "}", "]">>
    /\ out = << <<"a">> >>

(***************************************************************************)
(* The prompt.                                                             *)
(***************************************************************************)
Built == systemPrompt.state = "built"

\* The sections of the prompt of one kind, in their order.
Sections(kind) == SelectSeq(systemPrompt.prompt, LAMBDA sec : sec.kind = kind)

\* The first line of each section of the kind.
Headers(kind) == [i \in 1..Len(Sections(kind)) |-> Sections(kind)[i].text[1]]

\* The heading of the instructional block of a type, and of a difficulty.
TypeHeader(t) ==
    CASE t = "coding" -> "Coding Interview Instructions"
      [] t = "behavioral" -> "Behavioral Interview Instructions"
      [] t = "technical" -> "Technical Interview Instructions"
      [] t = "multiple-choice" -> "Multiple-Choice Instructions"
      [] t = "hr" -> "HR Interview Instructions"
      [] t = "hiring-manager" -> "Hiring Manager Interview Instructions"

DifficultyHeader(d) ==
    CASE d = "beginner" -> "Beginner-Level Guidelines"
      [] d = "intermediate" -> "Intermediate-Level Guidelines"
      [] d = "advanced" -> "Advanced-Level Guidelines"

NoDuplicates(q) == \A i, j \in 1..Len(q) : q[i] = q[j] => i = j

\* The configuration selects supported types, each once.
SelectsSupported ==
    /\ config.interviewTypes.type = "array"
    /\ Range(config.interviewTypes.items) \subseteq SupportedTypes
    /\ NoDuplicates(config.interviewTypes.items)

\* C12: for every supported difficulty and every selection of the six
\* types, the prompt is not empty and holds the persona line, the block of
\* the given difficulty and no other, one block for each selected type and
\* none for a type not selected, and the hybrid block exactly when two or
\* more types are selected.
C12_PromptContents ==
    (Built /\ config.difficulty \in SupportedDifficulties /\ SelectsSupported) =>
        LET sel == config.interviewTypes.items
        IN  /\ systemPrompt.prompt # <<>>
            /\ Len(Sections("persona")) = 1
            /\ Headers("difficulty") = <<DifficultyHeader(config.difficulty)>>
            /\ Len(Sections("type")) = Len(sel)
            /\ \A t \in SupportedTypes :
                  Cardinality({i \in 1..Len(Headers("type")) :
                                  Headers("type")[i] = TypeHeader(t)})
                      = IF t \in Range(sel) THEN 1 ELSE 0
            /\ Len(Sections("hybrid")) = IF Len(sel) >= 2 THEN 1 ELSE 0

C12_Witness ==
    /\ Built
    /\ config.difficulty = "advanced"
    /\ SelectsSupported
    /\ Len(config.interviewTypes.items) = 6
    /\ Len(Sections("hybrid")) = 1

PromptOrder ==
    <<"coding", "behavioral", "technical", "multiple-choice", "hr", "hiring-manager">>

C14_UnsetIsIntermediate ==
    (Built /\ config.difficulty = undefined) =>
        systemPrompt.prompt =
            getSystemPrompt([config EXCEPT !.difficulty = "intermediate"]).prompt

C14_Witness ==
    /\ Built
    /\ config.difficulty = undefined
    /\ config.interviewTypes.items = <<"coding", "technical">>
    /\ Headers("difficulty") = <<"Intermediate-Level Guidelines">>

\* The job description is a string with a character that is no space.
NonBlank(jd) == jd.type = "string" /\ \E i \in 1..Len(jd.chars) : jd.chars[i] # " "

\* The characters from the first to the last that is no space.
Trimmed(chars) ==
    LET nonSpace == {i \in 1..Len(chars) : chars[i] # " "}
    IN  IF nonSpace = {} THEN <<>>
        ELSE SubSeq(chars,
                    CHOOSE i \in nonSpace : \A j \in nonSpace : i <= j,
                    CHOOSE i \in nonSpace : \A j \in nonSpace : i >= j)

\* C15, as stated: the job-description section is in the prompt exactly
\* when the job description is not blank, and the text it embeds is the
\* trimmed job description.
C15_JobDescriptionTrimmed ==
    Built =>
        /\ Len(Sections("job")) = IF NonBlank(config.jobDescription) THEN 1 ELSE 0
        /\ NonBlank(config.jobDescription) =>
              Sections("job")[1].text = Trimmed(config.jobDescription.chars)

\* C15, amended: the job-description section is in the prompt exactly when
\* the job description is not blank, and the text it embeds is the job
\* description as supplied, leading and trailing spaces included.
C15_JobDescriptionAsSupplied ==
    Built =>
        /\ Len(Sections("job")) = IF NonBlank(config.jobDescription) THEN 1 ELSE 0
        /\ NonBlank(config.jobDescription) =>
              Sections("job")[1].text = config.jobDescription.chars

C15_Witness ==
    /\ Built
    /\ config.jobDescription.chars = <<" ", "d", "e", "v", " ">>
    /\ Len(Sections("job")) = 1
    /\ Sections("job")[1].text # Trimmed(config.jobDescription.chars)

(***************************************************************************)
(* The upstream request.                                                   *)
(***************************************************************************)
\* The role a label of an upstream request stands for.
RoleOf(label) ==
    CASE label \in {"User", "[INST]"} -> "user"
      [] label \in {"Assistant", "</s>"} -> "assistant"
      [] OTHER -> label

\* The messages an upstream request carries, read back from it.
Carried(req) ==
    [i \in 1..Len(req.items) |->
         [role |-> RoleOf(req.items[i].label), content |-> req.items[i].content]]

\* C16: for every provider, the upstream request carries the system prompt
\* and every message of the request, in the original order, each with its
\* role and content unchanged.
C16_MessagesCarried ==
    upRequest # NoRequest =>
        /\ upRequest.system = systemPrompt.prompt
        /\ Carried(upRequest) = reqBody.messages.items

(***************************************************************************)
(* The health probe.                                                       *)
(***************************************************************************)
\* The entries of availableProviders of a health response.
Entries(h) == {h.availableProviders[n] : n \in DOMAIN h.availableProviders}

\* C17: GET /chat answers status "ok", the provider POST would resolve
\* ("none" when it resolves none), and availableProviders consistent with
\* it: the provider is "none" exactly when every entry is false, and
\* otherwise the entry of the reported provider is true.
C17_HealthConsistent ==
    [][health' # health =>
          /\ health'.status = "ok"
          /\ health'.provider = IF Selected(env) = null THEN "none" ELSE Selected(env)
          /\ (health'.provider = "none") <=> (Entries(health') = {FALSE})
          /\ health'.provider # "none" =>
                /\ health'.provider \in DOMAIN health'.availableProviders
                /\ health'.availableProviders[health'.provider]]_vars

(***************************************************************************)
(* The chat hook.                                                          *)
(***************************************************************************)
\* Call i fails in this step.
Fails(i) ==
    /\ i \in 1..Len(calls)
    /\ calls[i].pc \in {"fetching", "reading"}
    /\ calls'[i].pc = "failed"

EmptyAssistant(msg) == msg.role = "assistant" /\ msg.content = <<>>

\* C18: when a call of sendMessage fails (a response that is not 2xx, a
\* read of the stream that fails), every message of the store stays, in
\* order and unchanged, the user message just sent and the assistant text
\* streamed so far included; at most a last assistant message that is empty
\* is removed; the error is recorded and isLoading is false.
C18_FailureKeepsMessages ==
    [][\A i \in 1..MaxSends :
          Fails(i) =>
              /\ \/ storeMessages' = storeMessages
                 \/ /\ storeMessages # <<>>
                    /\ EmptyAssistant(storeMessages[Len(storeMessages)])
                    /\ storeMessages' = SubSeq(storeMessages, 1, Len(storeMessages) - 1)
              /\ \E j \in 1..Len(storeMessages') : storeMessages'[j] = calls[i].userMsg
              /\ error' # null
              /\ isLoading' = FALSE]_vars

C18_Witness ==
    /\ Len(calls) = 1
    /\ calls[1].pc = "failed"
    /\ calls[1].assistantContent = <<"a">>
    /\ storeMessages = <<calls[1].userMsg, [role |-> "assistant", content |-> <<"a">>]>>
    /\ error # null
    /\ ~isLoading

(***************************************************************************)
(* The stages of a request.                                                *)
(***************************************************************************)
StageOrder ==
    <<"Validating", "ResolvingProvider", "BuildingPrompt", "Dispatching", "Streaming">>

Terminals == {"Closed", "Error"}

IsPrefix(a, b) == Len(a) <= Len(b) /\ SubSeq(b, 1, Len(a)) = a

Ended == stages # <<>> /\ stages[Len(stages)] \in Terminals

\* The stages a request has entered are the first stages of the order,
\* each once, followed by one terminal stage exactly when the request has
\* ended; Closed follows Streaming only.
StagesInOrder ==
    LET entered == IF Ended THEN SubSeq(stages, 1, Len(stages) - 1) ELSE stages
    IN  /\ stages # <<>>
        /\ entered # <<>>
        /\ IsPrefix(entered, StageOrder)
        /\ (pc \in {"closed", "error"}) <=> Ended
        /\ (Ended /\ stages[Len(stages)] = "Closed") => entered = StageOrder

\* C19: every POST request passes the stages Validating, ResolvingProvider,
\* BuildingPrompt, Dispatching, Streaming in this order without entering
\* one twice, ends in exactly one of Closed and Error, and no bytes are
\* written once it has ended.
C19_StagesInOrder ==
    /\ []StagesInOrder
    /\ [][Ended => (stages' = stages /\ out' = out /\ outClosed' = outClosed)]_vars

C19_Witness ==
    /\ stages = <<"Validating", "ResolvingProvider", "BuildingPrompt",
                  "Dispatching", "Streaming", "Closed">>
    /\ out # <<>>
    /\ outClosed

\* C20: BuildingPrompt never fails, whatever jobDescription, interviewTypes
\* (a value that is no sequence included), difficulty and duration are.
C20_BuildingPromptNeverFails ==
    /\ systemPrompt.state # "threw"
    /\ ~(/\ Len(stages) >= 2
         /\ stages[Len(stages) - 1] = "BuildingPrompt"
         /\ stages[Len(stages)] = "Error")


(***************************************************************************)
(* The order of the output.                                                *)
(***************************************************************************)
\* C21: for each streaming format what has been emitted stands in the
\* order of the frames that carried it: the chunks emitted are, in order,
\* texts of frames of the body in the order of their arrival, whether the
\* frames came in one chunk or in several.
C21_OrderPreserved ==
    provider \in StreamingProviders =>
        IsSubseq(out, Texts(provider, LinesOf(upBody)))

\* A body of three lines arrived in chunks, one of which ended inside the
\* second line, and the texts of the first and the third came out in this
\* order.
C21_Witness ==
    /\ pc = "closed"
    /\ provider = "openai"
    /\ lineCut
    /\ upBody = bodyOf(<< <<"D", "{", "o", "a", "}">>,
                          <<"D", "{", "o", "}">>,
                          <<"D", "{", "o", "C3", "A9", "}">> >>)
    /\ out = << <<"a">>, <<"C3", "A9">> >>

(***************************************************************************)
(* Tags the tables do not hold, and the order of the sections.             *)
(***************************************************************************)
\* The configuration selects types, each once, of which one at least is
\* none of the six supported types.
SelectsUnsupported ==
    /\ config.interviewTypes.type = "array"
    /\ NoDuplicates(config.interviewTypes.items)
    /\ ~(Range(config.interviewTypes.items) \subseteq SupportedTypes)

\* getSystemPrompt is given arguments of the declared types.
WellTyped ==
    /\ config.interviewTypes.type \in {"undefined", "null", "array"}
    /\ config.jobDescription.type \in {"undefined", "null", "string"}

SectionRank(kind) ==
    CASE kind = "persona" -> 1
      [] kind = "core" -> 2
      [] kind = "difficulty" -> 3
      [] kind = "type" -> 4
      [] kind = "hybrid" -> 5
      [] OTHER -> 0

\* C23: in every prompt the persona statement is first, and the core
\* guidelines, the difficulty block, the type blocks and the hybrid block
\* follow in this order; no type block and no hybrid block precedes the
\* difficulty block.
C23_SectionOrder ==
    Built =>
        LET q == systemPrompt.prompt
        IN  /\ q[1].kind = "persona"
            /\ Len(Sections("core")) = 1
            /\ Len(Sections("difficulty")) = 1
            /\ \A i, j \in 1..Len(q) :
                  (i < j /\ SectionRank(q[i].kind) > 0 /\ SectionRank(q[j].kind) > 0)
                      => SectionRank(q[i].kind) <= SectionRank(q[j].kind)

C23_Witness ==
    /\ Built
    /\ Len(Sections("job")) = 1
    /\ Len(Sections("type")) = 2
    /\ Len(Sections("hybrid")) = 1
    /\ systemPrompt.prompt[Len(systemPrompt.prompt)].kind = "hybrid"


\* The calls of sendMessage whose request to /api/chat is in flight.
InFlight == {i \in 1..Len(calls) : calls[i].pc \in {"fetching", "reading"}}

\* C27: at most one /api/chat request is in flight from the chat UI at any
\* time, leaving the interview screen and starting again while a reply
\* streams included, and isLoading is false once no call of sendMessage is
\* in progress.
C27_OneRequestInFlight ==
    /\ Cardinality(InFlight) <= 1
    /\ (currentStep = "interviewing" /\ InFlight = {}) => ~isLoading

\* C28: the assistant message a request appended holds the concatenation of
\* the chunks that request has received, whatever clearMessages, a restart
\* or another request does meanwhile: no other request writes into it and
\* none of its chunks is lost.
C28_WritesOwnMessage ==
    \A i \in 1..Len(calls) :
        (calls[i].pc \in {"reading", "done"} /\ slots[i] \in 1..Len(storeMessages)) =>
            storeMessages[slots[i]] =
                [role |-> "assistant", content |-> calls[i].assistantContent]

\* C29: the messages a call of sendMessage sends to /api/chat are the
\* store's messages at that moment, the stored history followed by the new
\* user message; after a restart the first request carries the opening
\* message alone.
C29_SendsStoreMessages ==
    [][Len(calls') > Len(calls) =>
          calls'[Len(calls')].apiMessages = storeMessages']_vars


\* The chat POST has called its detectProvider().
ChatResolved == "ResolvingProvider" \in Range(stages)

\* The scorecard POST has called its detectProvider().
ScorecardResolved ==
    /\ scPc # "json"
    /\ scBody.json \notin {"invalid", "null"}
    /\ ~scorecardInvalid(scBody.messages)

\* C25: in one environment the chat route and the scorecard route resolve
\* the same provider, and when the chat route has a provider the scorecard
\* route does not answer with its no-credential error.
C25_SameProvider ==
    (ChatResolved /\ ScorecardResolved) =>
        /\ scProvider = provider
        /\ provider # null => scResp.error # ScorecardNoApiKeys

\* A score of the scorecard is a number from 1 to 10.
InRange(v) == v.k = "number" /\ v.n >= 1 /\ v.n <= 10

\* The score of the reply's object, clamped to the nearest bound when it is
\* a number, 5 when it is missing.
Clamped(v, w) ==
    CASE v.k = "number" ->
           w = Num(IF v.n < 1 THEN 1 ELSE IF v.n > 10 THEN 10 ELSE v.n)
      [] v.k \in {"missing", "absent"} -> w = Num(5)
      [] OTHER -> TRUE

\* The reply is one JSON object, bare, fenced or inside prose.
ParseableReply(q) == Cardinality({i \in 1..Len(q) : q[i].t = "object"}) = 1
                     /\ \A i \in 1..Len(q) : q[i].t \notin {"malformed", "null"}

TheObject(q) == q[CHOOSE i \in 1..Len(q) : q[i].t = "object"]

\* C26: parseScorecard always returns a scorecard whose three scores are
\* numbers from 1 to 10: a score out of range is clamped to the nearest
\* bound, a missing score is 5, and a reply without parseable JSON gives
\* the default scorecard with every score 5.
C26_ScoresInRange ==
    scPc = "done" =>
        /\ InRange(scorecard.technicalAccuracy)
        /\ InRange(scorecard.communicationSkills)
        /\ InRange(scorecard.overallScore)
        /\ ParseableReply(scContent) =>
               /\ Clamped(TheObject(scContent).ta, scorecard.technicalAccuracy)
               /\ Clamped(TheObject(scContent).cs, scorecard.communicationSkills)
               /\ Clamped(TheObject(scContent).overall, scorecard.overallScore)
        /\ ~(\E i \in 1..Len(scContent) : scContent[i].t = "object") =>
               scorecard = DefaultScorecard

\* messages is missing, no sequence, or an empty sequence.
NoMessages(b) == ~(b.messages.type = "array" /\ Len(b.messages.items) > 0)

\* C30: the scorecard POST answers 400 and calls no upstream when messages
\* is missing, not a sequence or empty, while the chat POST accepts the
\* empty sequence and goes on to resolve the provider.
C30_EmptyMessagesRejected ==
    /\ (scPc # "json" /\ scBody.json \in {"object", "scalar"} /\ NoMessages(scBody)) =>
           /\ scResp = jsonResponse(MessagesMustNotBeEmpty, 400)
           /\ scFetches = <<>>
    /\ (pc # "json" /\ reqBody.json = "object"
          /\ reqBody.messages.type = "array" /\ reqBody.messages.items = <<>>) =>
           /\ resp.status # 400
           /\ ChatResolved

C30_Witness ==
    /\ scBody = [json |-> "object", messages |-> [type |-> "array", items |-> <<>>]]
    /\ scPc = "error"
    /\ scResp.status = 400
    /\ scFetches = <<>>
    /\ pc = "fetch"
    /\ provider = "openai"
    /\ Len(fetches) = 1


\* What a request handled alone sends upstream: the provider of the
\* environment, and the request its adapter builds from the request's own
\* messages and the prompt of its own configuration.
OwnRequest(q) ==
    /\ q.provider = detectProvider(env)
    /\ q.systemPrompt = assigned(getSystemPrompt(q.config))
    /\ q.upRequest = adapterRequest(q.provider, q.messages, q.systemPrompt.prompt)

\* A step of a request handled alone: its inputs stay, and what it emits is
\* the transform of the bytes of its own upstream body that arrived.
OwnStep(q, n) ==
    /\ n.messages = q.messages /\ n.config = q.config
    /\ q.pc # "json" =>
           /\ n.provider = q.provider
           /\ n.systemPrompt = q.systemPrompt
           /\ n.upRequest = q.upRequest
    /\ q.pc = "streaming" => n.upBody = q.upBody
    /\ n.pos >= q.pos
    /\ n.out = IF n.pos > q.pos
               THEN q.out \o transform(q.provider,
                                       SubSeq(q.upBody, q.pos + 1, n.pos)).emit
               ELSE q.out

\* C24: with two or more POST /chat requests in progress in any
\* interleaving, what each request sends upstream and emits derives from its
\* own messages, configuration and upstream bytes alone, as if it were
\* handled alone: a step of one request changes nothing of another.
C24_RequestsIsolated ==
    /\ [](\A r \in DOMAIN reqs : reqs[r].pc # "json" => OwnRequest(reqs[r]))
    /\ [][\A r \in DOMAIN reqs :
             reqs'[r] # reqs[r] =>
                 /\ \A s \in DOMAIN reqs \ {r} : reqs'[s] = reqs[s]
                 /\ OwnStep(reqs[r], reqs'[r])]_vars

C24_Witness ==
    /\ Len(reqs) >= 2
    /\ reqs[1].config # reqs[2].config
    /\ \A r \in {1, 2} :
           /\ reqs[r].pc = "streaming"
           /\ reqs[r].pos > 0 /\ reqs[r].pos < Len(reqs[r].upBody)
           /\ reqs[r].out # <<>>

====
